---- MODULE Spec2Model ----
(***************************************************************************)
(* Model of the impala-go driver core:                                     *)
(*   - the SASL transport (sasl.TSaslTransport): negotiation in Open and   *)
(*     the length-framed Read / Write / Flush,                             *)
(*   - the operation lifecycle (hive.Operation): WaitToFinish and fetch    *)
(*     with their backoff,                                                 *)
(*   - the result cursor (hive.ResultSet): Next, value, isSet, length.     *)
(* Each part has its own specification over the shared variables; the      *)
(* variables of the other parts stay at their initial values.              *)
(***************************************************************************)
EXTENDS Integers, Sequences, FiniteSets, TLC

(***************************************************************************)
(* Bounds of the model (not program constants).                            *)
(***************************************************************************)
\* negotiation messages the server sends during one handshake
MaxNegMsgs == 2
\* payload bytes carried by one server negotiation message
MaxNegPayload == 1
\* application frames the peer flushes towards the client
MaxFrames == 2
\* bytes of one application payload (one Write, one peer frame)
MaxPayload == 2
\* Write calls made by the application
MaxWrites == 2
\* Flush calls made by the application
MaxFlushes == 2
\* size of the buffer handed to one Read call
MaxReadBuf == 2

(***************************************************************************)
(* Generic helpers.                                                        *)
(***************************************************************************)
Min(a, b) == IF a < b THEN a ELSE b

Take(s, n) == SubSeq(s, 1, Min(n, Len(s)))

Drop(s, n) == SubSeq(s, Min(n, Len(s)) + 1, Len(s))

RECURSIVE Concat(_)
Concat(ss) == IF ss = <<>> THEN <<>> ELSE Head(ss) \o Concat(Tail(ss))

IsPrefix(p, s) == Len(p) <= Len(s) /\ SubSeq(s, 1, Len(p)) = p

RECURSIVE Zeros(_)
Zeros(n) == IF n <= 0 THEN <<>> ELSE <<0>> \o Zeros(n - 1)

\* a Go byte slice of length n filled from the front by a short read
PadTo(s, n) == Take(s, n) \o Zeros(n - Len(s))

(***************************************************************************)
(* Errors.  A Go error chain is a sequence of error values, outermost      *)
(* first; errors.Unwrap drops the head; nil is the empty chain.            *)
(***************************************************************************)
Nil == <<>>

Err(kind, info, num) == [kind |-> kind, info |-> info, num |-> num]

\* fmt.Errorf("... %w", err)
Wrap(msg, err) == <<Err("fmt", msg, 0)>> \o err

\* errors.As(err, &target) for a target of the given kind
ChainHas(err, kind) == \E i \in 1..Len(err) : err[i].kind = kind

\* the thrift.TTransportException with the given type id
TransportError(typeId) == <<Err("TTransportException", typeId, 0)>>

(***************************************************************************)
(* State.                                                                  *)
(***************************************************************************)
VARIABLES
  \* ---- SASL transport ----
  tpc,          \* "new", "recv" (Open blocked in receive), "open", "failed"
  mechKind,     \* the mechanism the Client was configured with
  username,     \* opts.Username
  password,     \* opts.Password
  transOpen,    \* t.trans.IsOpen()
  transOpens,   \* calls of t.trans.Open()
  mechStarts,   \* calls of t.sasl.Start()
  wireIn,       \* bytes written by the server and not yet read by t.trans.Read
  inClosed,     \* the server has closed its side (end of stream after wireIn)
  wireOut,      \* the writes t.trans.Write has accepted, in order
  rbuf,         \* t.rbuf
  wbuf,         \* t.wbuf
  openErr,      \* what Open returned
  srvLog,       \* history: negotiation messages the server sent
  challenges,   \* history: the challenges handed to sasl.Step
  stepFailed,   \* history: sasl.Step returned an error
  faulted,      \* history: the transport failed (open, write, or a read error other than end of stream)
  fed,          \* history: the payloads the peer flushed, in order
  got,          \* history: the bytes Read returned to the application
  readRes,      \* result of the last Read: [n, err]
  flushRes,     \* result of the last Flush
  writes,       \* Write calls so far
  flushes       \* Flush calls so far

saslVars ==
  << tpc, mechKind, username, password, transOpen, transOpens, mechStarts, wireIn, inClosed,
     wireOut, rbuf, wbuf, openErr, srvLog, challenges, stepFailed, faulted,
     fed, got, readRes, flushRes, writes, flushes >>

VARIABLES
  \* ---- context and the call in progress ----
  ctxErr,        \* ctx.Err()
  duration,      \* the local duration of the running WaitToFinish / fetch
  rpcs,          \* history: RPCs issued by the current call
  sleeps,        \* history: the durations of the sleeps of the current call
  rpcsAfterDone, \* history: RPCs the current call issued with ctx already done
  lateSleeps,    \* history: sleeps of the current call ended by the timer with ctx done
  ctxAtEntry,    \* history: ctx.Err() when the current call was entered
  allRunning,    \* history: every RPC of the current call reported "still running"
  \* ---- WaitToFinish ----
  wpc,           \* "idle", "check" (status RPC in flight), "sleep", "done"
  wInLoop,       \* the status RPC in flight is the one inside the loop
  wret,          \* what WaitToFinish returned
  firstReport,   \* history: outcome of the first status RPC of the call
  lastReport     \* history: outcome of the latest status RPC of the call

callVars ==
  << ctxErr, duration, rpcs, sleeps, rpcsAfterDone, lateSleeps, ctxAtEntry,
     allRunning >>

waitVars == << wpc, wInLoop, wret, firstReport, lastReport >>

VARIABLES
  \* ---- ResultSet ----
  npc,           \* "none" (no ResultSet), "ready", "fetch_rpc", "fetch_sleep",
                 \* "done" (Next returned), "panicked"
  idx,           \* rs.idx
  rsLength,      \* rs.length
  more,          \* rs.more
  result,        \* rs.result
  schema,        \* rs.schema: the columns' DatabaseTypeName
  dest,          \* the caller's destination slice
  nret,          \* what Next returned
  maxRows,       \* op.hive.opts.MaxRows
  srvBatches,    \* FetchResults responses with a success status the server can still give
  fetchCalls,    \* history: calls of rs.fetchfn by the current Next
  installed,     \* history: the batches Next installed: [n, hasMoreRows]
  curBatch,      \* history: what the batch held was built from: [n, nulls, bad]
  lastFetch,     \* history: the latest outcome of client.FetchResults: [rpcErr, code]
  delivered,     \* history: the rows Next delivered: <<batch number, index>>
  eofAt          \* history: rows delivered when Next first returned io.EOF, or -1

cursorVars ==
  << npc, idx, rsLength, more, result, schema, dest, nret, maxRows, srvBatches,
     fetchCalls, installed, curBatch, lastFetch, delivered, eofAt >>

VARIABLES
  \* ---- the calls of one RPC: OpenSession, GetResultSetMetadata, Close ----
  lastCall,      \* the call made, or "none"
  lastResp,      \* the outcome of its RPC
  lastRet        \* what the call returned: [val, err]

rpcVars == << lastCall, lastResp, lastRet >>

opVars == << callVars, waitVars, cursorVars, rpcVars >>

vars == << saslVars, callVars, waitVars, cursorVars, rpcVars >>

(***************************************************************************)
(* SASL negotiation statuses and wire encoding.                            *)
(***************************************************************************)
StatusStart == 1
StatusOK == 2
StatusBad == 3
StatusError == 4
StatusComplete == 5

\* byte(v>>24), byte(v>>16), byte(v>>8), byte(v)
BE32(v) ==
  << (v \div 16777216) % 256, (v \div 65536) % 256, (v \div 256) % 256, v % 256 >>

\* binary.BigEndian.Uint32
Uint32(h) == h[1] * 16777216 + h[2] * 65536 + h[3] * 256 + h[4]

\* the bytes negotiationSend writes: status, 4-byte length, body
NegMessage(status, body) == <<status>> \o BE32(Len(body)) \o body

\* Flush mutated: the length prefix counts its own four bytes
FlushFrame_CountsPrefix(in) == BE32(Len(in) + 4) \o in

\* the bytes Flush writes for the buffered bytes in: 4-byte length, bytes
FlushFrame(in) == BE32(Len(in)) \o in

(***************************************************************************)
(* SASL mechanisms.                                                        *)
(***************************************************************************)
\* "PLAIN" and "GSSAPI" as bytes
MechPlain == <<80, 76, 65, 73, 78>>
MechGSSAPI == <<71, 83, 83, 65, 80, 73>>

Usernames == {<<97>>, <<98, 99>>}
Passwords == {<<112>>}
MechKinds == {"PLAIN", "GSSAPI"}

\* plain.Start mutated: the authorization identity is left empty
PlainStart_NoAuthzid(user, pass) ==
  [mech |-> MechPlain, initial |-> <<0>> \o user \o <<0>> \o pass,
   done |-> TRUE, err |-> Nil]

\* plain.Start: mechanism name, initial response, done flag, error
PlainStart(user, pass) ==
  [mech |-> MechPlain, initial |-> user \o <<0>> \o user \o <<0>> \o pass,
   done |-> TRUE, err |-> Nil]

ErrUnexpectedServerChallenge == <<Err("ErrUnexpectedServerChallenge", "", 0)>>

\* plain.Step mutated: the challenge is answered with an empty response
PlainStep_Answers(challenge) ==
  [payload |-> <<>>, done |-> FALSE, err |-> Nil]

\* plain.Step: fails for every challenge
PlainStep(challenge) ==
  [payload |-> <<>>, done |-> FALSE, err |-> ErrUnexpectedServerChallenge]

\* plain.InterpretReceiveEOF: an AuthError carrying the username, whose
\* Unwrap is the transport error
PlainInterpretReceiveEOF(user, transportError) ==
  <<[kind |-> "AuthError", info |-> user, num |-> 0]>> \o transportError

\* the ticket-based mechanism: its token exchange is external; the first
\* token and every response are an opaque token
GssToken == <<96>>

GssStart == [mech |-> MechGSSAPI, initial |-> GssToken, done |-> FALSE, err |-> Nil]

GssStep(challenge, ok) ==
  IF ok THEN [payload |-> GssToken, done |-> FALSE, err |-> Nil]
        ELSE [payload |-> <<>>, done |-> FALSE, err |-> <<Err("gssapi", "", 0)>>]

GssInterpretReceiveEOF(transportError) == transportError

\* Client.Start / Client.Step / Client.InterpretReceiveEOF dispatch on the
\* configured mechanism
SaslStart(kind, user, pass) ==
  IF kind = "PLAIN" THEN PlainStart(user, pass) ELSE GssStart

SaslStep(kind, challenge, ok) ==
  IF kind = "PLAIN" THEN PlainStep(challenge) ELSE GssStep(challenge, ok)

SaslInterpretReceiveEOF(kind, user, transportError) ==
  IF kind = "PLAIN" THEN PlainInterpretReceiveEOF(user, transportError)
                    ELSE GssInterpretReceiveEOF(transportError)

SaslInit ==
  /\ tpc = "new"
  /\ mechKind \in MechKinds
  /\ username \in Usernames
  /\ password \in Passwords
  /\ transOpen \in BOOLEAN
  /\ transOpens = 0
  /\ mechStarts = 0
  /\ wireIn = <<>>
  /\ inClosed = FALSE
  /\ wireOut = <<>>
  /\ rbuf = <<>>
  /\ wbuf = <<>>
  /\ openErr = Nil
  /\ srvLog = <<>>
  /\ challenges = <<>>
  /\ stepFailed = FALSE
  /\ faulted = FALSE
  /\ fed = <<>>
  /\ got = <<>>
  /\ readRes = [n |-> 0, err |-> Nil]
  /\ flushRes = Nil
  /\ writes = 0
  /\ flushes = 0

(***************************************************************************)
(* The underlying transport and the buffers.                               *)
(***************************************************************************)
IoEOF == <<Err("io.EOF", "", 0)>>

IoErrUnexpectedEOF == <<Err("io.ErrUnexpectedEOF", "", 0)>>

\* t.trans.Read(buf) with len(buf) = n on a stream holding the bytes in:
\* what is there, up to n bytes (a short read when fewer are there); the
\* end-of-file exception once the stream is drained and closed
TransRead(in, n) ==
  IF in = <<>> THEN [data |-> <<>>, err |-> TransportError("END_OF_FILE"), rest |-> in]
  ELSE [data |-> Take(in, n), err |-> Nil, rest |-> Drop(in, n)]

\* bytes.Buffer.Read(buf) with len(buf) = k on a buffer holding b
BufferRead(b, k) ==
  IF b = <<>>
  THEN [data |-> <<>>, err |-> IF k = 0 THEN Nil ELSE IoEOF, rest |-> <<>>]
  ELSE [data |-> Take(b, k), err |-> Nil, rest |-> Drop(b, k)]

\* receive mutated: every transport exception is taken for end of stream
receive_EveryFailureIsAuth(kind, user, in, readFault) ==
  LET rd == IF readFault # Nil THEN [data |-> <<>>, err |-> readFault, rest |-> in]
                               ELSE TransRead(in, 5)
      header == PadTo(rd.data, 5)
  IN IF rd.err # Nil
     THEN IF ChainHas(rd.err, "TTransportException")
          THEN [status |-> 0, challenge |-> <<>>, rest |-> rd.rest,
                err |-> SaslInterpretReceiveEOF(kind, user, rd.err)]
          ELSE [status |-> 0, challenge |-> <<>>, rest |-> rd.rest, err |-> rd.err]
     ELSE [status |-> header[1], challenge |-> SubSeq(header, 2, 5),
           rest |-> rd.rest, err |-> Nil]

\* TSaslTransport.receive, given what t.trans.Read(header) does on the
\* stream: the status byte and the four bytes after it
receive(kind, user, in, readFault) ==
  LET rd == IF readFault # Nil THEN [data |-> <<>>, err |-> readFault, rest |-> in]
                               ELSE TransRead(in, 5)
      header == PadTo(rd.data, 5)
  IN IF rd.err # Nil
     THEN IF ChainHas(rd.err, "TTransportException")
             /\ rd.err[1].info = "END_OF_FILE"
          THEN [status |-> 0, challenge |-> <<>>, rest |-> rd.rest,
                err |-> SaslInterpretReceiveEOF(kind, user, rd.err)]
          ELSE [status |-> 0, challenge |-> <<>>, rest |-> rd.rest, err |-> rd.err]
     ELSE [status |-> header[1], challenge |-> SubSeq(header, 2, 5),
           rest |-> rd.rest, err |-> Nil]

\* readFrame mutated: what the caller's buffer does not take of the frame is
\* not kept
readFrame_DropsRest(in, closed, k) ==
  LET hd == TransRead(in, 4)
      l == Uint32(PadTo(hd.data, 4))
      body == Take(hd.rest, l)
      first == BufferRead(body, k)
  IN IF hd.err # Nil
     THEN [blocked |-> FALSE, data |-> <<>>, err |-> hd.err, rest |-> hd.rest,
           rbuf |-> <<>>, swapped |-> FALSE]
     ELSE IF Len(hd.rest) >= l
     THEN [blocked |-> FALSE, data |-> first.data, err |-> first.err,
           rest |-> Drop(hd.rest, l), rbuf |-> << >>, swapped |-> TRUE]
     ELSE IF closed
     THEN [blocked |-> FALSE, data |-> <<>>,
           err |-> IF hd.rest = <<>> THEN TransportError("END_OF_FILE")
                                    ELSE IoErrUnexpectedEOF,
           rest |-> <<>>, rbuf |-> <<>>, swapped |-> FALSE]
     ELSE [blocked |-> TRUE, data |-> <<>>, err |-> Nil, rest |-> in,
           rbuf |-> <<>>, swapped |-> FALSE]

\* TSaslTransport.readFrame on the stream in: the header by one
\* t.trans.Read, the body by io.ReadFull, then the first Read of the new rbuf
readFrame(in, closed, k) ==
  LET hd == TransRead(in, 4)
      l == Uint32(PadTo(hd.data, 4))
      body == Take(hd.rest, l)
      first == BufferRead(body, k)
  IN IF hd.err # Nil
     THEN [blocked |-> FALSE, data |-> <<>>, err |-> hd.err, rest |-> hd.rest,
           rbuf |-> <<>>, swapped |-> FALSE]
     ELSE IF Len(hd.rest) >= l
     THEN [blocked |-> FALSE, data |-> first.data, err |-> first.err,
           rest |-> Drop(hd.rest, l), rbuf |-> first.rest, swapped |-> TRUE]
     ELSE IF closed
     THEN [blocked |-> FALSE, data |-> <<>>,
           err |-> IF hd.rest = <<>> THEN TransportError("END_OF_FILE")
                                    ELSE IoErrUnexpectedEOF,
           rest |-> <<>>, rbuf |-> <<>>, swapped |-> FALSE]
     ELSE [blocked |-> TRUE, data |-> <<>>, err |-> Nil, rest |-> in,
           rbuf |-> <<>>, swapped |-> FALSE]

(***************************************************************************)
(* TSaslTransport.Open, in two steps: up to the first receive, and one     *)
(* turn of the receive loop.                                               *)
(***************************************************************************)
NegotiationFailed(err) == Wrap("sasl: negotiation failed.", err)

BadStatus(status) == <<Err("fmt", "sasl: negotiation failed. bad status", status)>>

OpenFaults == {"none", "open", "send_start", "send_initial"}

\* Open mutated: the initial response is sent before the START message
OpenStart_InitialFirst(fault) ==
  /\ tpc = "new"
  /\ UNCHANGED opVars
  /\ fault = "open" => ~transOpen
  /\ LET st == SaslStart(mechKind, username, password)
         start == NegMessage(StatusStart, st.mech)
         initial == NegMessage(StatusOK, st.initial)
     IN /\ transOpens' = IF transOpen THEN transOpens ELSE transOpens + 1
        /\ mechStarts' = IF fault = "open" THEN mechStarts ELSE mechStarts + 1
        /\ transOpen' = (fault # "open")
        /\ faulted' = (fault # "none")
        /\ CASE fault = "open" ->
                  /\ tpc' = "failed"
                  /\ openErr' = TransportError("NOT_OPEN")
                  /\ wireOut' = wireOut
             [] fault = "send_start" ->
                  /\ tpc' = "failed"
                  /\ openErr' = NegotiationFailed(TransportError("UNKNOWN"))
                  /\ wireOut' = wireOut
             [] fault = "send_initial" ->
                  /\ tpc' = "failed"
                  /\ openErr' = NegotiationFailed(TransportError("UNKNOWN"))
                  /\ wireOut' = Append(wireOut, start)
             [] OTHER ->
                  /\ tpc' = "recv"
                  /\ openErr' = Nil
                  /\ wireOut' = wireOut \o <<initial, start>>
  /\ UNCHANGED << mechKind, username, password, wireIn, inClosed, rbuf, wbuf,
                  srvLog, challenges, stepFailed, fed, got, readRes, flushRes,
                  writes, flushes >>

\* Open mutated: the underlying transport is opened whatever its state
OpenStart_Reopens(fault) ==
  /\ tpc = "new"
  /\ UNCHANGED opVars
  /\ fault = "open" => ~transOpen
  /\ LET st == SaslStart(mechKind, username, password)
         start == NegMessage(StatusStart, st.mech)
         initial == NegMessage(StatusOK, st.initial)
     IN /\ transOpens' = transOpens + 1
        /\ mechStarts' = IF fault = "open" THEN mechStarts ELSE mechStarts + 1
        /\ transOpen' = (fault # "open")
        /\ faulted' = (fault # "none")
        /\ CASE fault = "open" ->
                  /\ tpc' = "failed"
                  /\ openErr' = TransportError("NOT_OPEN")
                  /\ wireOut' = wireOut
             [] fault = "send_start" ->
                  /\ tpc' = "failed"
                  /\ openErr' = NegotiationFailed(TransportError("UNKNOWN"))
                  /\ wireOut' = wireOut
             [] fault = "send_initial" ->
                  /\ tpc' = "failed"
                  /\ openErr' = NegotiationFailed(TransportError("UNKNOWN"))
                  /\ wireOut' = Append(wireOut, start)
             [] OTHER ->
                  /\ tpc' = "recv"
                  /\ openErr' = Nil
                  /\ wireOut' = wireOut \o <<start, initial>>
  /\ UNCHANGED << mechKind, username, password, wireIn, inClosed, rbuf, wbuf,
                  srvLog, challenges, stepFailed, fed, got, readRes, flushRes,
                  writes, flushes >>

\* Open up to its loop: the transport is opened, START and the initial
\* response are sent
OpenStart(fault) ==
  /\ tpc = "new"
  /\ UNCHANGED opVars
  /\ fault = "open" => ~transOpen
  /\ LET st == SaslStart(mechKind, username, password)
         start == NegMessage(StatusStart, st.mech)
         initial == NegMessage(StatusOK, st.initial)
     IN /\ transOpens' = IF transOpen THEN transOpens ELSE transOpens + 1
        /\ mechStarts' = IF fault = "open" THEN mechStarts ELSE mechStarts + 1
        /\ transOpen' = (fault # "open")
        /\ faulted' = (fault # "none")
        /\ CASE fault = "open" ->
                  /\ tpc' = "failed"
                  /\ openErr' = TransportError("NOT_OPEN")
                  /\ wireOut' = wireOut
             [] fault = "send_start" ->
                  /\ tpc' = "failed"
                  /\ openErr' = NegotiationFailed(TransportError("UNKNOWN"))
                  /\ wireOut' = wireOut
             [] fault = "send_initial" ->
                  /\ tpc' = "failed"
                  /\ openErr' = NegotiationFailed(TransportError("UNKNOWN"))
                  /\ wireOut' = Append(wireOut, start)
             [] OTHER ->
                  /\ tpc' = "recv"
                  /\ openErr' = Nil
                  /\ wireOut' = wireOut \o <<start, initial>>
  /\ UNCHANGED << mechKind, username, password, wireIn, inClosed, rbuf, wbuf,
                  srvLog, challenges, stepFailed, fed, got, readRes, flushRes,
                  writes, flushes >>

RecvFaults == {"none", "read", "send"}

\* Open mutated: a COMPLETE message is answered like a challenge
OpenRecv_ReplyAfterComplete(fault, stepOk) ==
  /\ tpc = "recv"
  /\ UNCHANGED opVars
  /\ fault = "read" \/ wireIn # <<>> \/ inClosed
  /\ LET r == receive(mechKind, username, wireIn,
                      IF fault = "read" THEN TransportError("TIMED_OUT") ELSE Nil)
         step == SaslStep(mechKind, r.challenge, stepOk)
     IN /\ wireIn' = r.rest
        /\ IF r.err # Nil
           THEN /\ tpc' = "failed"
                /\ openErr' = NegotiationFailed(r.err)
                /\ faulted' = (faulted \/ fault = "read")
                /\ UNCHANGED << wireOut, challenges, stepFailed >>
           ELSE IF r.status # StatusOK /\ r.status # StatusComplete
           THEN /\ tpc' = "failed"
                /\ openErr' = BadStatus(r.status)
                /\ UNCHANGED << wireOut, challenges, stepFailed, faulted >>
           ELSE IF r.status = StatusComplete
           THEN /\ tpc' = "open"
                /\ openErr' = Nil
                /\ wireOut' = Append(wireOut, NegMessage(StatusOK, step.payload))
                /\ UNCHANGED << challenges, stepFailed, faulted >>
           ELSE /\ challenges' = Append(challenges, r.challenge)
                /\ IF step.err # Nil
                   THEN /\ tpc' = "failed"
                        /\ openErr' = NegotiationFailed(step.err)
                        /\ stepFailed' = TRUE
                        /\ UNCHANGED << wireOut, faulted >>
                   ELSE IF fault = "send"
                   THEN /\ tpc' = "failed"
                        /\ openErr' = NegotiationFailed(TransportError("UNKNOWN"))
                        /\ faulted' = TRUE
                        /\ UNCHANGED << wireOut, stepFailed >>
                   ELSE /\ tpc' = "recv"
                        /\ openErr' = Nil
                        /\ wireOut' = Append(wireOut, NegMessage(StatusOK, step.payload))
                        /\ UNCHANGED << stepFailed, faulted >>
  /\ UNCHANGED << mechKind, username, password, transOpen, transOpens, mechStarts, inClosed,
                  rbuf, wbuf, srvLog, fed, got, readRes, flushRes, writes, flushes >>

\* Open from its loop on: one receive and what the loop does with it
OpenRecv(fault, stepOk) ==
  /\ tpc = "recv"
  /\ UNCHANGED opVars
  /\ fault = "read" \/ wireIn # <<>> \/ inClosed
  /\ LET r == receive(mechKind, username, wireIn,
                      IF fault = "read" THEN TransportError("TIMED_OUT") ELSE Nil)
         step == SaslStep(mechKind, r.challenge, stepOk)
     IN /\ wireIn' = r.rest
        /\ IF r.err # Nil
           THEN /\ tpc' = "failed"
                /\ openErr' = NegotiationFailed(r.err)
                /\ faulted' = (faulted \/ fault = "read")
                /\ UNCHANGED << wireOut, challenges, stepFailed >>
           ELSE IF r.status # StatusOK /\ r.status # StatusComplete
           THEN /\ tpc' = "failed"
                /\ openErr' = BadStatus(r.status)
                /\ UNCHANGED << wireOut, challenges, stepFailed, faulted >>
           ELSE IF r.status = StatusComplete
           THEN /\ tpc' = "open"
                /\ openErr' = Nil
                /\ UNCHANGED << wireOut, challenges, stepFailed, faulted >>
           ELSE /\ challenges' = Append(challenges, r.challenge)
                /\ IF step.err # Nil
                   THEN /\ tpc' = "failed"
                        /\ openErr' = NegotiationFailed(step.err)
                        /\ stepFailed' = TRUE
                        /\ UNCHANGED << wireOut, faulted >>
                   ELSE IF fault = "send"
                   THEN /\ tpc' = "failed"
                        /\ openErr' = NegotiationFailed(TransportError("UNKNOWN"))
                        /\ faulted' = TRUE
                        /\ UNCHANGED << wireOut, stepFailed >>
                   ELSE /\ tpc' = "recv"
                        /\ openErr' = Nil
                        /\ wireOut' = Append(wireOut, NegMessage(StatusOK, step.payload))
                        /\ UNCHANGED << stepFailed, faulted >>
  /\ UNCHANGED << mechKind, username, password, transOpen, transOpens, mechStarts, inClosed,
                  rbuf, wbuf, srvLog, fed, got, readRes, flushRes, writes, flushes >>

(***************************************************************************)
(* The framed phase: Write, Flush, Read.                                   *)
(***************************************************************************)
\* the n bytes of the j-th payload of a side: all different
Payload(side, j, n) == [i \in 1..n |-> side + 16 * j + i]

Write(n) ==
  /\ tpc = "open"
  /\ UNCHANGED opVars
  /\ writes < MaxWrites
  /\ wbuf' = wbuf \o Payload(128, writes, n)
  /\ writes' = writes + 1
  /\ UNCHANGED << tpc, mechKind, username, password, transOpen, transOpens, mechStarts,
                  wireIn, inClosed, wireOut, rbuf, openErr, srvLog, challenges,
                  stepFailed, faulted, fed, got, readRes, flushRes, flushes >>

\* Flush mutated: the buffer is emptied only after a successful write
Flush_KeepsOnFailure(writeOk) ==
  /\ tpc = "open"
  /\ UNCHANGED opVars
  /\ flushes < MaxFlushes
  /\ flushes' = flushes + 1
  /\ LET in == wbuf
         payload == FlushFrame(in)
     IN /\ wbuf' = IF writeOk THEN <<>> ELSE wbuf
        /\ IF writeOk
           THEN /\ wireOut' = Append(wireOut, payload)
                /\ flushRes' = Nil
                /\ UNCHANGED faulted
           ELSE /\ wireOut' = wireOut
                /\ flushRes' = Wrap("sasl: write payload failed", TransportError("UNKNOWN"))
                /\ faulted' = TRUE
  /\ UNCHANGED << tpc, mechKind, username, password, transOpen, transOpens, mechStarts,
                  wireIn, inClosed, rbuf, openErr, srvLog, challenges,
                  stepFailed, fed, got, readRes, writes >>

Flush(writeOk) ==
  /\ tpc = "open"
  /\ UNCHANGED opVars
  /\ flushes < MaxFlushes
  /\ flushes' = flushes + 1
  /\ LET in == wbuf
         payload == FlushFrame(in)
     IN /\ wbuf' = <<>>
        /\ IF writeOk
           THEN /\ wireOut' = Append(wireOut, payload)
                /\ flushRes' = Nil
                /\ UNCHANGED faulted
           ELSE /\ wireOut' = wireOut
                /\ flushRes' = Wrap("sasl: write payload failed", TransportError("UNKNOWN"))
                /\ faulted' = TRUE
  /\ UNCHANGED << tpc, mechKind, username, password, transOpen, transOpens, mechStarts,
                  wireIn, inClosed, rbuf, openErr, srvLog, challenges,
                  stepFailed, fed, got, readRes, writes >>

\* the caller reads a response after its request is flushed
Read(k) ==
  /\ tpc = "open"
  /\ UNCHANGED opVars
  /\ flushes > 0
  /\ wbuf = <<>>
  /\ LET b == BufferRead(rbuf, k)
         f == readFrame(wireIn, inClosed, k)
     IN IF b.err = Nil
        THEN /\ rbuf' = b.rest
             /\ got' = got \o b.data
             /\ readRes' = [n |-> Len(b.data), err |-> Nil]
             /\ UNCHANGED wireIn
        ELSE /\ wireIn # <<>> \/ inClosed
             /\ ~f.blocked
             /\ wireIn' = f.rest
             /\ rbuf' = IF f.swapped THEN f.rbuf ELSE b.rest
             /\ got' = got \o f.data
             /\ readRes' = [n |-> Len(f.data), err |-> f.err]
  /\ UNCHANGED << tpc, mechKind, username, password, transOpen, transOpens, mechStarts,
                  inClosed, wireOut, wbuf, openErr, srvLog, challenges,
                  stepFailed, faulted, fed, flushRes, writes, flushes >>

(***************************************************************************)
(* The server: negotiation messages, application frames flushed by its own *)
(* framed transport, and closing the stream.                               *)
(***************************************************************************)
NegStatuses == StatusStart..StatusComplete

NegBytes == {0, StatusComplete}

NegPayloads == UNION { [1..n -> NegBytes] : n \in 0..MaxNegPayload }

ServerCompleted == srvLog # <<>> /\ srvLog[Len(srvLog)].status = StatusComplete

ServerNeg(status, body) ==
  /\ tpc = "recv"
  /\ UNCHANGED opVars
  /\ ~inClosed
  /\ Len(srvLog) < MaxNegMsgs
  /\ ~ServerCompleted
  /\ wireIn' = wireIn \o NegMessage(status, body)
  /\ srvLog' = Append(srvLog, [status |-> status, body |-> body])
  /\ UNCHANGED << tpc, mechKind, username, password, transOpen, transOpens, mechStarts,
                  inClosed, wireOut, rbuf, wbuf, openErr, challenges,
                  stepFailed, faulted, fed, got, readRes, flushRes, writes, flushes >>

\* the server answers a request: one frame for each flushed request
PeerFlush(n) ==
  /\ tpc = "open"
  /\ UNCHANGED opVars
  /\ ~inClosed
  /\ ServerCompleted
  /\ Len(fed) < MaxFrames
  /\ Len(fed) < flushes
  /\ flushRes = Nil
  /\ wireIn' = wireIn \o FlushFrame(Payload(0, Len(fed), n))
  /\ fed' = Append(fed, Payload(0, Len(fed), n))
  /\ UNCHANGED << tpc, mechKind, username, password, transOpen, transOpens, mechStarts,
                  inClosed, wireOut, rbuf, wbuf, openErr, srvLog, challenges,
                  stepFailed, faulted, got, readRes, flushRes, writes, flushes >>

ServerClose ==
  /\ tpc = "recv"
  /\ UNCHANGED opVars
  /\ ~inClosed
  /\ inClosed' = TRUE
  /\ UNCHANGED << tpc, mechKind, username, password, transOpen, transOpens, mechStarts,
                  wireIn, wireOut, rbuf, wbuf, openErr, srvLog, challenges,
                  stepFailed, faulted, fed, got, readRes, flushRes, writes, flushes >>

SaslNext ==
  \/ \E fault \in OpenFaults : OpenStart(fault)
  \/ \E fault \in RecvFaults, stepOk \in BOOLEAN : OpenRecv(fault, stepOk)
  \/ \E n \in 0..MaxPayload : Write(n)
  \/ \E ok \in BOOLEAN : Flush(ok)
  \/ \E k \in 1..MaxReadBuf : Read(k)
  \/ \E status \in NegStatuses, body \in NegPayloads : ServerNeg(status, body)
  \/ \E n \in 0..MaxPayload : PeerFlush(n)
  \/ ServerClose

(***************************************************************************)
(* Properties of the SASL transport.                                       *)
(***************************************************************************)
NegOKOrComplete(i) == srvLog[i].status \in {StatusOK, StatusComplete}

\* the server sent OK challenges and then COMPLETE, nothing else
CleanHandshake ==
  /\ ServerCompleted
  /\ \A i \in 1..(Len(srvLog) - 1) : srvLog[i].status = StatusOK

\* no negotiation message of the server carried a payload
NoNegPayload == \A i \in 1..Len(srvLog) : srvLog[i].body = <<>>

\* C1: whenever the server sends OK challenges that the mechanism answers,
\* then COMPLETE, and the transport does not fail, Open returns nil, and
\* what Read then hands to the application is the payload of the frames the
\* peer flushed (the stream is read as 4-byte-length-prefixed frames).
C1_OpenSucceedsThenFramed ==
  (CleanHandshake /\ ~faulted /\ ~stepFailed) =>
     /\ tpc # "failed"
     /\ tpc = "open" => (openErr = Nil /\ IsPrefix(got, Concat(fed)))

\* C1 for servers whose negotiation messages carry no payload
C1_HoldsWithoutNegPayload == NoNegPayload => C1_OpenSucceedsThenFramed

\* C2: when the server has sent a status other than OK / COMPLETE, or has
\* closed the stream before COMPLETE, Open does not return nil; with PLAIN,
\* end of stream makes Open return an error whose chain holds an AuthError
\* with the attempted username, which unwraps to the transport's error.
C2_BadStatusOrEOFFailsOpen ==
  /\ (\E i \in 1..Len(srvLog) : ~NegOKOrComplete(i)) => tpc # "open"
  /\ (inClosed /\ ~ServerCompleted) => tpc # "open"
  /\ (mechKind = "PLAIN" /\ tpc = "failed" /\ srvLog = <<>> /\ inClosed /\ ~faulted) =>
        /\ Len(openErr) = 3
        /\ openErr[2] = Err("AuthError", username, 0)
        /\ Tail(Tail(openErr)) = TransportError("END_OF_FILE")

\* C2 for the PLAIN mechanism alone
C2_HoldsForPlain == mechKind = "PLAIN" => C2_BadStatusOrEOFFailsOpen

\* C3: round trip of the framed transport: on a stream that holds only the
\* frames the peer flushed, every Read returns without error and the bytes
\* read so far are the first bytes of the flushed payloads, in order, for
\* every payload length (0 included) and every split into Read calls.
C3_FrameRoundTrip ==
  (tpc = "open" /\ NoNegPayload /\ ~inClosed) =>
     /\ readRes.err = Nil
     /\ IsPrefix(got, Concat(fed))

\* C3 for payloads of at least one byte
C3_HoldsForNonEmptyPayloads ==
  (\A j \in 1..Len(fed) : fed[j] # <<>>) => C3_FrameRoundTrip

\* a whole non-empty payload has been read back in more than one Read
C3_ReadBack ==
  /\ tpc = "open" /\ NoNegPayload /\ ~inClosed
  /\ Len(fed) = 2 /\ Len(fed[1]) = 2 /\ Len(fed[2]) = 2
  /\ got = Concat(fed)

(***************************************************************************)
(* The operation lifecycle: CheckStateAndStatus, WaitToFinish, backoff.    *)
(***************************************************************************)
\* status RPCs of one WaitToFinish call / fetch RPCs of one fetch call
MaxPolls == 7

\* milliseconds
initialBackoff == 100
maxBackoff == 1000

\* nextDuration mutated: doubling without the ceiling
nextDuration_NoCeiling(d) == d * 2

nextDuration(d) ==
  IF d * 2 > maxBackoff THEN maxBackoff ELSE d * 2

\* context errors
Canceled == <<Err("context.Canceled", "", 0)>>
DeadlineExceeded == <<Err("context.DeadlineExceeded", "", 0)>>
CtxErrors == {Canceled, DeadlineExceeded}

\* CoalesceOrEmpty mutated: the context's error is never taken
CoalesceOrEmpty_IgnoresCtx(err, ctxE) == err

\* lo.CoalesceOrEmpty(err, ctxE): the first that is not nil
CoalesceOrEmpty(err, ctxE) == IF err # Nil THEN err ELSE ctxE

\* sleep(ctx, d): a select between ctx.Done() and a timer of d > 0.  The
\* timer can end the sleep only while the context is not done: a done
\* context is ready at once and the timer is not
TimerCanEndSleep_IgnoringCtx(ctxE) == TRUE

TimerCanEndSleep(ctxE) == ctxE = Nil

StatusRpcCodes == {"SUCCESS_STATUS", "ERROR_STATUS", "INVALID_HANDLE_STATUS"}
OpStates ==
  {"RUNNING_STATE", "PENDING_STATE", "FINISHED_STATE", "CANCELED_STATE",
   "CLOSED_STATE", "ERROR_STATE"}

\* the zero TOperationState, returned beside an error
ZeroState == "INITIALIZED_STATE"

\* checkStatus: an embedded status code that is not a success code is an error
checkStatus(resp) ==
  IF resp.code \in {"ERROR_STATUS", "INVALID_HANDLE_STATUS"}
  THEN <<Err("status", resp.code, 0)>> ELSE Nil

\* checkState: the failure terminals ERROR and CANCELED are errors
checkState(resp) ==
  IF resp.state \in {"ERROR_STATE", "CANCELED_STATE"}
  THEN <<Err("state", resp.state, 0)>> ELSE Nil

\* CheckStateAndStatus mutated: the operation state is examined before the
\* status code
CheckStateAndStatus_StateFirst(resp) ==
  IF resp.rpcErr # Nil THEN [state |-> ZeroState, err |-> resp.rpcErr]
  ELSE IF checkState(resp) # Nil THEN [state |-> ZeroState, err |-> checkState(resp)]
  ELSE IF checkStatus(resp) # Nil THEN [state |-> ZeroState, err |-> checkStatus(resp)]
  ELSE [state |-> resp.state, err |-> Nil]

\* CheckStateAndStatus mutated: the operation state is not examined
CheckStateAndStatus_IgnoresState(resp) ==
  IF resp.rpcErr # Nil THEN [state |-> ZeroState, err |-> resp.rpcErr]
  ELSE IF checkStatus(resp) # Nil THEN [state |-> ZeroState, err |-> checkStatus(resp)]
  ELSE [state |-> resp.state, err |-> Nil]

\* Operation.CheckStateAndStatus on the outcome of the GetOperationStatus RPC
CheckStateAndStatus(resp) ==
  IF resp.rpcErr # Nil THEN [state |-> ZeroState, err |-> resp.rpcErr]
  ELSE IF checkStatus(resp) # Nil THEN [state |-> ZeroState, err |-> checkStatus(resp)]
  ELSE IF checkState(resp) # Nil THEN [state |-> ZeroState, err |-> checkState(resp)]
  ELSE [state |-> resp.state, err |-> Nil]

\* the loop condition of WaitToFinish, mutated: CLOSED ends the wait too
WaitLoopCond_ClosedEnds(err, state) ==
  err = Nil /\ state \notin {"FINISHED_STATE", "CLOSED_STATE"}

\* the loop condition of WaitToFinish, mutated: only an error ends the wait
WaitLoopCond_OnlyError(err, state) == err = Nil

\* the loop condition of WaitToFinish
WaitLoopCond(err, state) == err = Nil /\ state # "FINISHED_STATE"

NoReport ==
  [rpcErr |-> Nil, code |-> "", state |-> "", ctx |-> Nil, inLoop |-> FALSE,
   seen |-> FALSE]

Report(resp, ctxE, inLoop) ==
  [rpcErr |-> resp.rpcErr, code |-> resp.code, state |-> resp.state,
   ctx |-> ctxE, inLoop |-> inLoop, seen |-> TRUE]

CallInit ==
  /\ ctxErr \in {Nil} \cup CtxErrors
  /\ duration = 0
  /\ rpcs = 0
  /\ sleeps = <<>>
  /\ rpcsAfterDone = 0
  /\ lateSleeps = 0
  /\ ctxAtEntry = Nil
  /\ allRunning = TRUE

WaitInit ==
  /\ wpc = "idle"
  /\ wInLoop = FALSE
  /\ wret = Nil
  /\ firstReport = NoReport
  /\ lastReport = NoReport

\* the context becomes done: cancelled by the caller, or its deadline passes
CtxDone(e) ==
  /\ ctxErr = Nil
  /\ ctxErr' = e
  /\ UNCHANGED << duration, rpcs, sleeps, rpcsAfterDone, lateSleeps, ctxAtEntry,
                  allRunning >>

\* issuing one RPC of the current call
IssueRpc ==
  /\ rpcs < MaxPolls
  /\ rpcs' = rpcs + 1
  /\ rpcsAfterDone' = IF ctxErr # Nil THEN rpcsAfterDone + 1 ELSE rpcsAfterDone

\* WaitToFinish is called: duration := initialBackoff and the first
\* CheckStateAndStatus is issued
WaitStart ==
  /\ wpc = "idle"
  /\ npc = "none"
  /\ lastCall = "none"
  /\ UNCHANGED << saslVars, cursorVars, rpcVars >>
  /\ duration' = initialBackoff
  /\ ctxAtEntry' = ctxErr
  /\ IssueRpc
  /\ wpc' = "check"
  /\ wInLoop' = FALSE
  /\ UNCHANGED << ctxErr, sleeps, lateSleeps, allRunning, wret, firstReport,
                  lastReport >>

\* the GetOperationStatus RPC returns resp: the rest of CheckStateAndStatus,
\* the coalescing with ctx.Err() inside the loop, and the loop test
StatusReturn(resp) ==
  /\ wpc = "check"
  /\ UNCHANGED << saslVars, cursorVars, rpcVars >>
  /\ resp.rpcErr \in CtxErrors => resp.rpcErr = ctxErr
  /\ LET c == CheckStateAndStatus(resp)
         err == IF wInLoop THEN CoalesceOrEmpty(c.err, ctxErr) ELSE c.err
         d == IF wInLoop THEN nextDuration(duration) ELSE duration
     IN /\ duration' = d
        /\ lastReport' = Report(resp, ctxErr, wInLoop)
        /\ firstReport' = IF wInLoop THEN firstReport ELSE Report(resp, ctxErr, wInLoop)
        /\ allRunning' = (allRunning /\ c.err = Nil
                            /\ c.state \in {"RUNNING_STATE", "PENDING_STATE"})
        /\ IF WaitLoopCond(err, c.state)
           THEN /\ wpc' = "sleep"
                /\ sleeps' = Append(sleeps, d)
                /\ wret' = wret
           ELSE /\ wpc' = "done"
                /\ sleeps' = sleeps
                /\ wret' = err
  /\ UNCHANGED << ctxErr, rpcs, rpcsAfterDone, lateSleeps, ctxAtEntry, wInLoop >>

\* WaitSleepEnd mutated: the next CheckStateAndStatus is issued when the
\* interval is over, whether the previous one has returned or not
WaitSleepEnd_NoWait(byTimer) ==
  /\ wpc \in {"sleep", "check"}
  /\ UNCHANGED << saslVars, cursorVars, rpcVars >>
  /\ IF byTimer THEN TimerCanEndSleep(ctxErr) ELSE ctxErr # Nil
  /\ lateSleeps' = IF byTimer /\ ctxErr # Nil THEN lateSleeps + 1 ELSE lateSleeps
  /\ IssueRpc
  /\ wpc' = "check"
  /\ wInLoop' = TRUE
  /\ UNCHANGED << ctxErr, duration, sleeps, ctxAtEntry, allRunning, wret,
                  firstReport, lastReport >>

\* the sleep of the loop ends, by its timer or by ctx.Done(), and the next
\* CheckStateAndStatus is issued
WaitSleepEnd(byTimer) ==
  /\ wpc = "sleep"
  /\ UNCHANGED << saslVars, cursorVars, rpcVars >>
  /\ IF byTimer THEN TimerCanEndSleep(ctxErr) ELSE ctxErr # Nil
  /\ lateSleeps' = IF byTimer /\ ctxErr # Nil THEN lateSleeps + 1 ELSE lateSleeps
  /\ IssueRpc
  /\ wpc' = "check"
  /\ wInLoop' = TRUE
  /\ UNCHANGED << ctxErr, duration, sleeps, ctxAtEntry, allRunning, wret,
                  firstReport, lastReport >>

\* the outcomes of a GetOperationStatus RPC
StatusResps ==
  [rpcErr : {Nil, TransportError("UNKNOWN")} \cup CtxErrors,
   code : StatusRpcCodes, state : OpStates]

\* the context of the running WaitToFinish becomes done
WaitCtxDone(e) ==
  /\ wpc \in {"check", "sleep"}
  /\ CtxDone(e)
  /\ UNCHANGED << waitVars, saslVars, cursorVars, rpcVars >>

(***************************************************************************)
(* Result streaming: FetchResults, fetch, ResultSet.Next and the decoding  *)
(* of column vectors.                                                      *)
(***************************************************************************)
\* opts.MaxRows of the operation lifecycle / of the decoding specification
OpMaxRows == 1
DecodeMaxRows == 10
\* success responses of the server to FetchResults
MaxBatches == 2

\* a driver.Value: Go type, scalar (by identity) and text
V(kind, n, s) == [kind |-> kind, n |-> n, s |-> s]
VNil == V("nil", 0, "")

PanicNilDeref == <<Err("panic", "nil pointer dereference", 0)>>
PanicIndex == <<Err("panic", "index out of range", 0)>>

\* the typed vectors of a TColumn; at most one is populated
NilVec == [set |-> FALSE, Values |-> <<>>, Nulls |-> <<>>]
Vec(values, nulls) == [set |-> TRUE, Values |-> values, Nulls |-> nulls]
NilColumn ==
  [BoolVal |-> NilVec, ByteVal |-> NilVec, I16Val |-> NilVec, I32Val |-> NilVec,
   I64Val |-> NilVec, StringVal |-> NilVec, DoubleVal |-> NilVec]
NilRowSet == [isNil |-> TRUE, Columns |-> <<>>]

\* isSet mutated: the bits of a byte taken from the most significant one
isSet_MsbFirst(bitmap, i) ==
  (bitmap[(i \div 8) + 1] \div (2 ^ (7 - (i % 8)))) % 2 # 0

\* isSet: bitmap[i/8] & (1 << (i%8)) != 0
isSet(bitmap, i) ==
  (bitmap[(i \div 8) + 1] \div (2 ^ (i % 8))) % 2 # 0

\* the null test and the read of Values[i] that every case of value() does on
\* its vector; a nil vector and an index past the slice panic
FromVec(vec, i) ==
  IF ~vec.set THEN [val |-> VNil, err |-> PanicNilDeref]
  ELSE IF (i \div 8) >= Len(vec.Nulls) THEN [val |-> VNil, err |-> PanicIndex]
  ELSE IF isSet(vec.Nulls, i) THEN [val |-> VNil, err |-> Nil]
  ELSE IF i >= Len(vec.Values) THEN [val |-> VNil, err |-> PanicIndex]
  ELSE [val |-> vec.Values[i + 1], err |-> Nil]

\* texts time.Parse accepts for TimestampFormat
GoodTimestamp == "2024-01-02 03:04:05.000000006"
BadTimestamp == "02/01/2024"
WellFormedTimestamps == {GoodTimestamp}

\* time.Parse(TimestampFormat, s)
ParseTimestamp(v) ==
  IF v.s \in WellFormedTimestamps
  THEN [val |-> V("time.Time", v.n, v.s), err |-> Nil]
  ELSE [val |-> VNil, err |-> <<Err("time.ParseError", v.s, 0)>>]

TimestampTypes == {"TIMESTAMP", "DATETIME"}

\* value(col, cd, i), cd given by its DatabaseTypeName
value(col, cd, i) ==
  CASE cd \in {"STRING", "CHAR", "VARCHAR"} -> FromVec(col.StringVal, i)
    [] cd = "TINYINT" -> FromVec(col.ByteVal, i)
    [] cd = "SMALLINT" -> FromVec(col.I16Val, i)
    [] cd = "INT" -> FromVec(col.I32Val, i)
    [] cd = "BIGINT" -> FromVec(col.I64Val, i)
    [] cd = "BOOLEAN" -> FromVec(col.BoolVal, i)
    [] cd \in {"FLOAT", "DOUBLE"} -> FromVec(col.DoubleVal, i)
    [] cd \in TimestampTypes ->
         LET r == FromVec(col.StringVal, i)
         IN IF r.err # Nil \/ r.val = VNil THEN r ELSE ParseTimestamp(r.val)
    [] OTHER -> FromVec(col.StringVal, i)

\* lengthFrom mutated: the double vector is not examined
RECURSIVE lengthFrom_NoDouble(_, _)
lengthFrom_NoDouble(cols, j) ==
  IF j > Len(cols) THEN 0
  ELSE LET col == cols[j]
       IN IF col.BoolVal.set THEN Len(col.BoolVal.Values)
          ELSE IF col.ByteVal.set THEN Len(col.ByteVal.Values)
          ELSE IF col.I16Val.set THEN Len(col.I16Val.Values)
          ELSE IF col.I32Val.set THEN Len(col.I32Val.Values)
          ELSE IF col.I64Val.set THEN Len(col.I64Val.Values)
          ELSE IF col.StringVal.set THEN Len(col.StringVal.Values)
          ELSE lengthFrom_NoDouble(cols, j + 1)

\* the loop of length() over rs.Columns, from column j on
RECURSIVE lengthFrom(_, _)
lengthFrom(cols, j) ==
  IF j > Len(cols) THEN 0
  ELSE LET col == cols[j]
       IN IF col.BoolVal.set THEN Len(col.BoolVal.Values)
          ELSE IF col.ByteVal.set THEN Len(col.ByteVal.Values)
          ELSE IF col.I16Val.set THEN Len(col.I16Val.Values)
          ELSE IF col.I32Val.set THEN Len(col.I32Val.Values)
          ELSE IF col.I64Val.set THEN Len(col.I64Val.Values)
          ELSE IF col.StringVal.set THEN Len(col.StringVal.Values)
          ELSE IF col.DoubleVal.set THEN Len(col.DoubleVal.Values)
          ELSE lengthFrom(cols, j + 1)

\* length mutated: the number of columns of the row set
length_OfColumns(rs) == IF rs.isNil THEN 0 ELSE Len(rs.Columns)

\* length(rs)
length(rs) == IF rs.isNil THEN 0 ELSE lengthFrom(rs.Columns, 1)

\* DecodeRow mutated: a failing column clears the destination
RECURSIVE DecodeRow_ClearsOnError(_, _, _, _, _)
DecodeRow_ClearsOnError(res, sch, i, d, c) ==
  IF c > Len(d) THEN [dest |-> d, err |-> Nil]
  ELSE IF res.isNil THEN [dest |-> d, err |-> PanicNilDeref]
  ELSE IF c > Len(res.Columns) \/ c > Len(sch) THEN [dest |-> d, err |-> PanicIndex]
  ELSE LET v == value(res.Columns[c], sch[c], i)
       IN IF v.err # Nil THEN [dest |-> [k \in 1..Len(d) |-> VNil], err |-> v.err]
          ELSE DecodeRow_ClearsOnError(res, sch, i, [d EXCEPT ![c] = v.val], c + 1)

\* the loop of Next over dest, from column c on: the destination as it is
\* when the loop ends, and the error that ended it
RECURSIVE DecodeRow(_, _, _, _, _)
DecodeRow(res, sch, i, d, c) ==
  IF c > Len(d) THEN [dest |-> d, err |-> Nil]
  ELSE IF res.isNil THEN [dest |-> d, err |-> PanicNilDeref]
  ELSE IF c > Len(res.Columns) \/ c > Len(sch) THEN [dest |-> d, err |-> PanicIndex]
  ELSE LET v == value(res.Columns[c], sch[c], i)
       IN IF v.err # Nil THEN [dest |-> d, err |-> v.err]
          ELSE DecodeRow(res, sch, i, [d EXCEPT ![c] = v.val], c + 1)

IsPanic(err) == ChainHas(err, "panic")

(***************************************************************************)
(* The server's side of FetchResults.                                      *)
(***************************************************************************)
\* the type names of value(), REAL, and one name value() does not know
TypeNames ==
  {"STRING", "CHAR", "VARCHAR", "TINYINT", "SMALLINT", "INT", "BIGINT",
   "BOOLEAN", "FLOAT", "DOUBLE", "REAL", "TIMESTAMP", "DATETIME", "DECIMAL"}

\* the vector the server populates for a column of the given type
ServerVecKind(t) ==
  CASE t = "BOOLEAN" -> "BoolVal"
    [] t = "TINYINT" -> "ByteVal"
    [] t = "SMALLINT" -> "I16Val"
    [] t = "INT" -> "I32Val"
    [] t = "BIGINT" -> "I64Val"
    [] t \in {"FLOAT", "DOUBLE", "REAL"} -> "DoubleVal"
    [] OTHER -> "StringVal"

\* the Go type of the values of a vector
GoKind(vk) ==
  CASE vk = "BoolVal" -> "bool"
    [] vk = "ByteVal" -> "int8"
    [] vk = "I16Val" -> "int16"
    [] vk = "I32Val" -> "int32"
    [] vk = "I64Val" -> "int64"
    [] vk = "DoubleVal" -> "float64"
    [] OTHER -> "string"

Bit(S, i) == IF i \in S THEN 1 ELSE 0

\* byte k of the null bitmap of the rows in S: row i is bit i%8 of byte i/8
BitmapByte(S, k) ==
  Bit(S, 8*k) + 2 * Bit(S, 8*k + 1) + 4 * Bit(S, 8*k + 2) + 8 * Bit(S, 8*k + 3)
  + 16 * Bit(S, 8*k + 4) + 32 * Bit(S, 8*k + 5) + 64 * Bit(S, 8*k + 6)
  + 128 * Bit(S, 8*k + 7)

\* the null bitmap of n rows of which those in S are null
BitmapOf(S, n) == [k \in 1..((n + 7) \div 8) |-> BitmapByte(S, k - 1)]

\* the scalar the server stores for row r of batch b: the zero value where
\* the row is null
ServerScalar(t, b, r, nulls, bad) ==
  IF r \in nulls THEN V(GoKind(ServerVecKind(t)), 0, "")
  ELSE V(GoKind(ServerVecKind(t)), 100 * b + r,
         IF t \in TimestampTypes
         THEN (IF r = bad THEN BadTimestamp ELSE GoodTimestamp) ELSE "")

ServerColumn(t, b, n, nulls, bad) ==
  [NilColumn EXCEPT ![ServerVecKind(t)] =
     Vec([r \in 1..n |-> ServerScalar(t, b, r - 1, nulls, bad)], BitmapOf(nulls, n))]

ServerRowSet(sch, b, n, nulls, bad) ==
  [isNil |-> FALSE,
   Columns |-> [c \in 1..Len(sch) |-> ServerColumn(sch[c], b, n, nulls, bad)]]

HasTimestamp(sch) == \E c \in 1..Len(sch) : sch[c] \in TimestampTypes

\* what the server answers to one FetchResults: an RPC failure, or a status
\* code with a nil row set, or a batch of n rows of which rows i and j are
\* null and row t carries malformed timestamps (n standing for "no row")
FetchAnswer(rpcErr, code, hasMore, isBatch, n, i, j, t) ==
  [rpcErr |-> rpcErr, code |-> code, hasMoreRows |-> hasMore, isBatch |-> isBatch,
   n |-> n, i |-> i, j |-> j, t |-> t]

\* the sizes of the batches: the small ones, and a full one of DecodeMaxRows
BatchSizes == (0..OpMaxRows) \cup {DecodeMaxRows}

FetchAnswers ==
  {FetchAnswer(e, "", FALSE, FALSE, 0, 0, 0, 0) :
     e \in {TransportError("UNKNOWN")} \cup CtxErrors}
  \cup {FetchAnswer(Nil, c, FALSE, FALSE, 0, 0, 0, 0) :
          c \in {"ERROR_STATUS", "INVALID_HANDLE_STATUS", "STILL_EXECUTING_STATUS"}}
  \cup {FetchAnswer(Nil, "SUCCESS_STATUS", hm, FALSE, 0, 0, 0, 0) : hm \in BOOLEAN}
  \cup UNION {UNION {{FetchAnswer(Nil, "SUCCESS_STATUS", hm, TRUE, n, i, j, t) :
                        j \in i..n, t \in 0..n, hm \in BOOLEAN} :
                     i \in 0..n} : n \in BatchSizes}

\* the answers a server can give for the schema under opts.MaxRows
AnswerFits(a, sch, mr) ==
  /\ a.n <= mr
  /\ a.t \in {a.i, a.j} => a.t = a.n
  /\ ~HasTimestamp(sch) => a.t = a.n

\* the TFetchResultsResp of answer a, as batch b: beside the fields of the
\* response, the rows that are null and the row whose timestamps are malformed
FetchResp(a, sch, b) ==
  LET nulls == IF a.isBatch THEN {a.i, a.j} \ {a.n} ELSE {}
      bad == IF a.isBatch /\ a.t < a.n THEN a.t ELSE -1
  IN [rpcErr |-> a.rpcErr, code |-> a.code, hasMoreRows |-> a.hasMoreRows,
      Results |-> IF a.isBatch THEN ServerRowSet(sch, b, a.n, nulls, bad)
                  ELSE NilRowSet,
      n |-> a.n, nulls |-> nulls, bad |-> bad]

(***************************************************************************)
(* FetchResults, ResultSet.Next and fetch.                                 *)
(***************************************************************************)
CursorInit ==
  /\ npc = "none"
  /\ idx = 0
  /\ rsLength = 0
  /\ more = FALSE
  /\ result = NilRowSet
  /\ dest = [c \in 1..Len(schema) |-> VNil]
  /\ nret = Nil
  /\ fetchCalls = 0
  /\ installed = <<>>
  /\ curBatch = [n |-> 0, nulls |-> {}, bad |-> -1]
  /\ lastFetch = [rpcErr |-> Nil, code |-> ""]
  /\ delivered = <<>>
  /\ eofAt = -1

\* Operation.FetchResults mutated: the first batch is requested at once
FetchResults_Eager ==
  /\ npc = "none"
  /\ wpc = "idle"
  /\ lastCall = "none"
  /\ npc' = "fetch_rpc"
  /\ idx' = 0
  /\ rsLength' = 0
  /\ more' = TRUE
  /\ result' = NilRowSet
  /\ fetchCalls' = 1
  /\ duration' = initialBackoff
  /\ rpcs' = 1
  /\ UNCHANGED << schema, dest, nret, maxRows, srvBatches, installed, curBatch,
                  lastFetch, delivered, eofAt >>
  /\ UNCHANGED << ctxErr, sleeps, rpcsAfterDone, lateSleeps, ctxAtEntry, allRunning >>
  /\ UNCHANGED << saslVars, waitVars, rpcVars >>

\* Operation.FetchResults: the ResultSet is built, no RPC is issued
FetchResults ==
  /\ npc = "none"
  /\ wpc = "idle"
  /\ lastCall = "none"
  /\ npc' = "ready"
  /\ idx' = 0
  /\ rsLength' = 0
  /\ more' = TRUE
  /\ result' = NilRowSet
  /\ UNCHANGED << schema, dest, nret, maxRows, srvBatches, fetchCalls, installed,
                  curBatch, lastFetch,
                  delivered, eofAt >>
  /\ UNCHANGED << saslVars, callVars, waitVars, rpcVars >>

\* rs.more = resp.GetHasMoreRows(), mutated: a batch without rows ends the
\* iteration
GetHasMoreRows_NonEmpty(resp) == resp.hasMoreRows /\ length(resp.Results) > 0

\* rs.more = resp.GetHasMoreRows()
GetHasMoreRows(resp) == resp.hasMoreRows

\* NextLoop mutated: the fetch closure is invoked whenever more is true, with
\* rows of the current batch still to deliver
NextLoop_FetchesEarly(i, len, m, res, calls) ==
  /\ idx' = IF i >= len \/ DecodeRow(res, schema, i, dest, 1).err # Nil
            THEN i ELSE i + 1
  /\ rsLength' = len
  /\ more' = m
  /\ result' = res
  /\ IF m
     THEN \* rs.fetchfn(): with a done context the loop of fetch is not
          \* entered and fetch returns ctx.Err()
          /\ fetchCalls' = calls + 1
          /\ duration' = IF ctxErr # Nil THEN 0 ELSE initialBackoff
          /\ rpcs' = IF ctxErr # Nil THEN 0 ELSE 1
          /\ sleeps' = <<>>
          /\ npc' = IF ctxErr # Nil THEN "done" ELSE "fetch_rpc"
          /\ nret' = IF ctxErr # Nil THEN ctxErr ELSE nret
          /\ UNCHANGED << dest, delivered, eofAt >>
     ELSE /\ fetchCalls' = calls
          /\ duration' = IF calls = 0 THEN 0 ELSE duration
          /\ rpcs' = IF calls = 0 THEN 0 ELSE rpcs
          /\ sleeps' = IF calls = 0 THEN <<>> ELSE sleeps
          /\ IF i >= len
             THEN /\ npc' = "done"
                  /\ nret' = IoEOF
                  /\ eofAt' = IF eofAt = -1 THEN Len(delivered) ELSE eofAt
                  /\ UNCHANGED << dest, delivered >>
             ELSE LET r == DecodeRow(res, schema, i, dest, 1)
                  IN /\ dest' = r.dest
                     /\ nret' = r.err
                     /\ npc' = IF IsPanic(r.err) THEN "panicked" ELSE "done"
                     /\ delivered' = IF r.err = Nil
                                     THEN Append(delivered, << Len(installed'), i >>)
                                     ELSE delivered
                     /\ eofAt' = eofAt

\* NextLoop mutated: at the end of the rows the index goes back to the first
\* row of the batch
NextLoop_RewindsAtEnd(i, len, m, res, calls) ==
  /\ idx' = IF i >= len THEN (IF m THEN i ELSE 0)
            ELSE IF DecodeRow(res, schema, i, dest, 1).err # Nil THEN i ELSE i + 1
  /\ rsLength' = len
  /\ more' = m
  /\ result' = res
  /\ IF i >= len /\ m
     THEN \* rs.fetchfn(): with a done context the loop of fetch is not
          \* entered and fetch returns ctx.Err()
          /\ fetchCalls' = calls + 1
          /\ duration' = IF ctxErr # Nil THEN 0 ELSE initialBackoff
          /\ rpcs' = IF ctxErr # Nil THEN 0 ELSE 1
          /\ sleeps' = <<>>
          /\ npc' = IF ctxErr # Nil THEN "done" ELSE "fetch_rpc"
          /\ nret' = IF ctxErr # Nil THEN ctxErr ELSE nret
          /\ UNCHANGED << dest, delivered, eofAt >>
     ELSE /\ fetchCalls' = calls
          /\ duration' = IF calls = 0 THEN 0 ELSE duration
          /\ rpcs' = IF calls = 0 THEN 0 ELSE rpcs
          /\ sleeps' = IF calls = 0 THEN <<>> ELSE sleeps
          /\ IF i >= len
             THEN /\ npc' = "done"
                  /\ nret' = IoEOF
                  /\ eofAt' = IF eofAt = -1 THEN Len(delivered) ELSE eofAt
                  /\ UNCHANGED << dest, delivered >>
             ELSE LET r == DecodeRow(res, schema, i, dest, 1)
                  IN /\ dest' = r.dest
                     /\ nret' = r.err
                     /\ npc' = IF IsPanic(r.err) THEN "panicked" ELSE "done"
                     /\ delivered' = IF r.err = Nil
                                     THEN Append(delivered, << Len(installed'), i >>)
                                     ELSE delivered
                     /\ eofAt' = eofAt

\* NextLoop mutated: the index advances whether the row was decoded or not
NextLoop_SkipsFailedRow(i, len, m, res, calls) ==
  /\ idx' = IF i >= len THEN i ELSE i + 1
  /\ rsLength' = len
  /\ more' = m
  /\ result' = res
  /\ IF i >= len /\ m
     THEN \* rs.fetchfn(): with a done context the loop of fetch is not
          \* entered and fetch returns ctx.Err()
          /\ fetchCalls' = calls + 1
          /\ duration' = IF ctxErr # Nil THEN 0 ELSE initialBackoff
          /\ rpcs' = IF ctxErr # Nil THEN 0 ELSE 1
          /\ sleeps' = <<>>
          /\ npc' = IF ctxErr # Nil THEN "done" ELSE "fetch_rpc"
          /\ nret' = IF ctxErr # Nil THEN ctxErr ELSE nret
          /\ UNCHANGED << dest, delivered, eofAt >>
     ELSE /\ fetchCalls' = calls
          /\ duration' = IF calls = 0 THEN 0 ELSE duration
          /\ rpcs' = IF calls = 0 THEN 0 ELSE rpcs
          /\ sleeps' = IF calls = 0 THEN <<>> ELSE sleeps
          /\ IF i >= len
             THEN /\ npc' = "done"
                  /\ nret' = IoEOF
                  /\ eofAt' = IF eofAt = -1 THEN Len(delivered) ELSE eofAt
                  /\ UNCHANGED << dest, delivered >>
             ELSE LET r == DecodeRow(res, schema, i, dest, 1)
                  IN /\ dest' = r.dest
                     /\ nret' = r.err
                     /\ npc' = IF IsPanic(r.err) THEN "panicked" ELSE "done"
                     /\ delivered' = IF r.err = Nil
                                     THEN Append(delivered, << Len(installed'), i >>)
                                     ELSE delivered
                     /\ eofAt' = eofAt

\* Next mutated: fetch enters its loop whatever the context
NextLoop_FetchIgnoresCtx(i, len, m, res, calls) ==
  /\ idx' = IF i >= len \/ DecodeRow(res, schema, i, dest, 1).err # Nil
            THEN i ELSE i + 1
  /\ rsLength' = len
  /\ more' = m
  /\ result' = res
  /\ IF i >= len /\ m
     THEN \* rs.fetchfn(): with a done context the loop of fetch is not
          \* entered and fetch returns ctx.Err()
          /\ fetchCalls' = calls + 1
          /\ duration' = initialBackoff
          /\ rpcs' = 1
          /\ sleeps' = <<>>
          /\ npc' = "fetch_rpc"
          /\ nret' = nret
          /\ UNCHANGED << dest, delivered, eofAt >>
     ELSE /\ fetchCalls' = calls
          /\ duration' = IF calls = 0 THEN 0 ELSE duration
          /\ rpcs' = IF calls = 0 THEN 0 ELSE rpcs
          /\ sleeps' = IF calls = 0 THEN <<>> ELSE sleeps
          /\ IF i >= len
             THEN /\ npc' = "done"
                  /\ nret' = IoEOF
                  /\ eofAt' = IF eofAt = -1 THEN Len(delivered) ELSE eofAt
                  /\ UNCHANGED << dest, delivered >>
             ELSE LET r == DecodeRow(res, schema, i, dest, 1)
                  IN /\ dest' = r.dest
                     /\ nret' = r.err
                     /\ npc' = IF IsPanic(r.err) THEN "panicked" ELSE "done"
                     /\ delivered' = IF r.err = Nil
                                     THEN Append(delivered, << Len(installed'), i >>)
                                     ELSE delivered
                     /\ eofAt' = eofAt

\* ResultSet.Next from the test of its loop on, the cursor being
\* (i, len, m, res) and fetch having been called calls times by this Next:
\* either fetch is entered and its first RPC issued, or Next returns.  The
\* history of fetch is that of the calls of the current Next
NextLoop(i, len, m, res, calls) ==
  /\ idx' = IF i >= len \/ DecodeRow(res, schema, i, dest, 1).err # Nil
            THEN i ELSE i + 1
  /\ rsLength' = len
  /\ more' = m
  /\ result' = res
  /\ IF i >= len /\ m
     THEN \* rs.fetchfn(): with a done context the loop of fetch is not
          \* entered and fetch returns ctx.Err()
          /\ fetchCalls' = calls + 1
          /\ duration' = IF ctxErr # Nil THEN 0 ELSE initialBackoff
          /\ rpcs' = IF ctxErr # Nil THEN 0 ELSE 1
          /\ sleeps' = <<>>
          /\ npc' = IF ctxErr # Nil THEN "done" ELSE "fetch_rpc"
          /\ nret' = IF ctxErr # Nil THEN ctxErr ELSE nret
          /\ UNCHANGED << dest, delivered, eofAt >>
     ELSE /\ fetchCalls' = calls
          /\ duration' = IF calls = 0 THEN 0 ELSE duration
          /\ rpcs' = IF calls = 0 THEN 0 ELSE rpcs
          /\ sleeps' = IF calls = 0 THEN <<>> ELSE sleeps
          /\ IF i >= len
             THEN /\ npc' = "done"
                  /\ nret' = IoEOF
                  /\ eofAt' = IF eofAt = -1 THEN Len(delivered) ELSE eofAt
                  /\ UNCHANGED << dest, delivered >>
             ELSE LET r == DecodeRow(res, schema, i, dest, 1)
                  IN /\ dest' = r.dest
                     /\ nret' = r.err
                     /\ npc' = IF IsPanic(r.err) THEN "panicked" ELSE "done"
                     /\ delivered' = IF r.err = Nil
                                     THEN Append(delivered, << Len(installed'), i >>)
                                     ELSE delivered
                     /\ eofAt' = eofAt

\* ResultSet.Next is called
NextCall ==
  /\ npc \in {"ready", "done"}
  /\ ctxAtEntry' = ctxErr
  /\ rpcsAfterDone' = 0
  /\ lateSleeps' = 0
  /\ allRunning' = TRUE
  /\ UNCHANGED << installed, curBatch, lastFetch >>
  /\ NextLoop(idx, rsLength, more, result, 0)
  /\ UNCHANGED << ctxErr, schema, maxRows, srvBatches >>
  /\ UNCHANGED << saslVars, waitVars, rpcVars >>

\* FetchReturn mutated: a failed fetch clears rs.more
FetchReturn_FailureEndsData(a) ==
  /\ npc = "fetch_rpc"
  /\ AnswerFits(a, schema, maxRows)
  /\ a.rpcErr \in CtxErrors => a.rpcErr = ctxErr
  /\ (a.rpcErr = Nil /\ a.code = "SUCCESS_STATUS") => srvBatches > 0
  /\ srvBatches' = IF a.rpcErr = Nil /\ a.code = "SUCCESS_STATUS"
                   THEN srvBatches - 1 ELSE srvBatches
  /\ allRunning' = (allRunning /\ a.rpcErr = Nil
                      /\ a.code = "STILL_EXECUTING_STATUS")
  /\ lastFetch' = [rpcErr |-> a.rpcErr, code |-> a.code]
  /\ LET resp == FetchResp(a, schema, Len(installed) + 1)
         failure == IF resp.rpcErr # Nil THEN resp.rpcErr ELSE checkStatus(resp)
     IN IF failure # Nil
        THEN \* fetch returns (nil, err) and Next returns err
             /\ npc' = "done"
             /\ nret' = failure
             /\ more' = FALSE
             /\ UNCHANGED << idx, rsLength, result, dest, fetchCalls,
                             installed, curBatch, delivered, eofAt, duration, rpcs, sleeps >>
        ELSE IF resp.code = "STILL_EXECUTING_STATUS" /\ ctxErr = Nil
        THEN \* the loop of fetch goes round: sleep(ctx, duration)
             /\ rpcs < MaxPolls
             /\ npc' = "fetch_sleep"
             /\ sleeps' = Append(sleeps, duration)
             /\ UNCHANGED << idx, rsLength, more, result, dest, nret, fetchCalls,
                             installed, curBatch, delivered, eofAt, duration, rpcs >>
        ELSE IF ctxErr # Nil
        THEN \* fetch returns (resp, ctx.Err()) and Next returns the error
             /\ npc' = "done"
             /\ nret' = ctxErr
             /\ UNCHANGED << idx, rsLength, more, result, dest, fetchCalls,
                             installed, curBatch, delivered, eofAt, duration, rpcs, sleeps >>
        ELSE \* Next installs the batch and tests its loop again
             /\ installed' = Append(installed,
                  [n |-> resp.n, hasMoreRows |-> resp.hasMoreRows])
             /\ curBatch' = [n |-> resp.n, nulls |-> resp.nulls, bad |-> resp.bad]
             /\ NextLoop(0, length(resp.Results), GetHasMoreRows(resp),
                         resp.Results, fetchCalls)
  /\ UNCHANGED << ctxErr, rpcsAfterDone, lateSleeps, ctxAtEntry, schema, maxRows >>
  /\ UNCHANGED << saslVars, waitVars, rpcVars >>

\* FetchReturn with a Next that installs the response even when fetch
\* returned the context's error with it
FetchReturn_InstallsCancelled(a) ==
  /\ npc = "fetch_rpc"
  /\ AnswerFits(a, schema, maxRows)
  /\ a.rpcErr \in CtxErrors => a.rpcErr = ctxErr
  /\ (a.rpcErr = Nil /\ a.code = "SUCCESS_STATUS") => srvBatches > 0
  /\ srvBatches' = IF a.rpcErr = Nil /\ a.code = "SUCCESS_STATUS"
                   THEN srvBatches - 1 ELSE srvBatches
  /\ allRunning' = (allRunning /\ a.rpcErr = Nil
                      /\ a.code = "STILL_EXECUTING_STATUS")
  /\ lastFetch' = [rpcErr |-> a.rpcErr, code |-> a.code]
  /\ LET resp == FetchResp(a, schema, Len(installed) + 1)
         failure == IF resp.rpcErr # Nil THEN resp.rpcErr ELSE checkStatus(resp)
     IN IF failure # Nil
        THEN /\ npc' = "done"
             /\ nret' = failure
             /\ UNCHANGED << idx, rsLength, more, result, dest, fetchCalls,
                             installed, curBatch, delivered, eofAt, duration, rpcs, sleeps >>
        ELSE IF resp.code = "STILL_EXECUTING_STATUS" /\ ctxErr = Nil
        THEN /\ rpcs < MaxPolls
             /\ npc' = "fetch_sleep"
             /\ sleeps' = Append(sleeps, duration)
             /\ UNCHANGED << idx, rsLength, more, result, dest, nret, fetchCalls,
                             installed, curBatch, delivered, eofAt, duration, rpcs >>
        ELSE /\ installed' = Append(installed,
                  [n |-> resp.n, hasMoreRows |-> resp.hasMoreRows])
             /\ curBatch' = [n |-> resp.n, nulls |-> resp.nulls, bad |-> resp.bad]
             /\ NextLoop(0, length(resp.Results), GetHasMoreRows(resp),
                         resp.Results, fetchCalls)
  /\ UNCHANGED << ctxErr, rpcsAfterDone, lateSleeps, ctxAtEntry, schema, maxRows >>
  /\ UNCHANGED << saslVars, waitVars, rpcVars >>

\* the FetchResults RPC of fetch returns the server's answer: the rest of the loop body of
\* fetch, its loop test, its return, and Next from the return of rs.fetchfn on
FetchReturn(a) ==
  /\ npc = "fetch_rpc"
  /\ AnswerFits(a, schema, maxRows)
  /\ a.rpcErr \in CtxErrors => a.rpcErr = ctxErr
  /\ (a.rpcErr = Nil /\ a.code = "SUCCESS_STATUS") => srvBatches > 0
  /\ srvBatches' = IF a.rpcErr = Nil /\ a.code = "SUCCESS_STATUS"
                   THEN srvBatches - 1 ELSE srvBatches
  /\ allRunning' = (allRunning /\ a.rpcErr = Nil
                      /\ a.code = "STILL_EXECUTING_STATUS")
  /\ lastFetch' = [rpcErr |-> a.rpcErr, code |-> a.code]
  /\ LET resp == FetchResp(a, schema, Len(installed) + 1)
         failure == IF resp.rpcErr # Nil THEN resp.rpcErr ELSE checkStatus(resp)
     IN IF failure # Nil
        THEN \* fetch returns (nil, err) and Next returns err
             /\ npc' = "done"
             /\ nret' = failure
             /\ UNCHANGED << idx, rsLength, more, result, dest, fetchCalls,
                             installed, curBatch, delivered, eofAt, duration, rpcs, sleeps >>
        ELSE IF resp.code = "STILL_EXECUTING_STATUS" /\ ctxErr = Nil
        THEN \* the loop of fetch goes round: sleep(ctx, duration)
             /\ rpcs < MaxPolls
             /\ npc' = "fetch_sleep"
             /\ sleeps' = Append(sleeps, duration)
             /\ UNCHANGED << idx, rsLength, more, result, dest, nret, fetchCalls,
                             installed, curBatch, delivered, eofAt, duration, rpcs >>
        ELSE IF ctxErr # Nil
        THEN \* fetch returns (resp, ctx.Err()) and Next returns the error
             /\ npc' = "done"
             /\ nret' = ctxErr
             /\ UNCHANGED << idx, rsLength, more, result, dest, fetchCalls,
                             installed, curBatch, delivered, eofAt, duration, rpcs, sleeps >>
        ELSE \* Next installs the batch and tests its loop again
             /\ installed' = Append(installed,
                  [n |-> resp.n, hasMoreRows |-> resp.hasMoreRows])
             /\ curBatch' = [n |-> resp.n, nulls |-> resp.nulls, bad |-> resp.bad]
             /\ NextLoop(0, length(resp.Results), GetHasMoreRows(resp),
                         resp.Results, fetchCalls)
  /\ UNCHANGED << ctxErr, rpcsAfterDone, lateSleeps, ctxAtEntry, schema, maxRows >>
  /\ UNCHANGED << saslVars, waitVars, rpcVars >>

\* the FetchResults RPC in flight returns one of the server's answers
FetchReturns ==
  /\ npc = "fetch_rpc"
  /\ \E a \in FetchAnswers : FetchReturn(a)

\* the sleep of fetch ends, by its timer or by ctx.Done(); duration is
\* advanced and the next FetchResults RPC is issued
FetchSleepEnd(byTimer) ==
  /\ npc = "fetch_sleep"
  /\ IF byTimer THEN TimerCanEndSleep(ctxErr) ELSE ctxErr # Nil
  /\ lateSleeps' = IF byTimer /\ ctxErr # Nil THEN lateSleeps + 1 ELSE lateSleeps
  /\ duration' = nextDuration(duration)
  /\ IssueRpc
  /\ npc' = "fetch_rpc"
  /\ UNCHANGED << ctxErr, sleeps, ctxAtEntry, allRunning >>
  /\ UNCHANGED << idx, rsLength, more, result, schema, dest, nret, maxRows,
                  srvBatches, fetchCalls, installed, curBatch, lastFetch, delivered,
                  eofAt >>
  /\ UNCHANGED << saslVars, waitVars, rpcVars >>

\* the context of the running Next, or of the next one, becomes done
CursorCtxDone(e) ==
  /\ npc \in {"ready", "fetch_rpc", "fetch_sleep", "done"}
  /\ CtxDone(e)
  /\ UNCHANGED << saslVars, waitVars, cursorVars, rpcVars >>

(***************************************************************************)
(* The calls of one RPC: Client.OpenSession, Operation.GetResultSetMetadata *)
(* and Operation.Close.                                                    *)
(***************************************************************************)
\* columns of a result set schema
MaxColumns == 2
\* partition entries of a DML result
MaxDmlEntries == 2

\* the status codes a server embeds in the response of these calls
ReplyCodes ==
  {"SUCCESS_STATUS", "SUCCESS_WITH_INFO_STATUS", "ERROR_STATUS",
   "INVALID_HANDLE_STATUS"}

\* the sequences over S of at most n elements
SeqsUpTo(S, n) == UNION {[1..k -> S] : k \in 0..n}

RECURSIVE SumSeq(_)
SumSeq(q) == IF q = <<>> THEN 0 ELSE Head(q) + SumSeq(Tail(q))

\* the outcome of an RPC of these calls: the fields of the three responses
RpcResp(rpcErr, code, session, isSetSchema, columns, hasDml, modified, deleted) ==
  [rpcErr |-> rpcErr, code |-> code, session |-> session,
   isSetSchema |-> isSetSchema, columns |-> columns,
   hasDml |-> hasDml, modified |-> modified, deleted |-> deleted]

NoResp == RpcResp(Nil, "", 0, FALSE, <<>>, FALSE, <<>>, <<>>)

\* what a call returns: a nil or non-nil pointer (session, schema), the row
\* count, the error
RpcRet(isNil, session, sch, rows, err) ==
  [isNil |-> isNil, session |-> session, schema |-> sch, rows |-> rows,
   err |-> err]

NoRet == RpcRet(TRUE, 0, <<>>, 0, Nil)

\* the return of a call that failed: nil, or 0, and the error
FailRet(err) == RpcRet(TRUE, 0, <<>>, 0, err)

\* Client.OpenSession on the outcome of its RPC
OpenSessionRet(resp) ==
  IF resp.rpcErr # Nil THEN FailRet(resp.rpcErr)
  ELSE IF checkStatus(resp) # Nil THEN FailRet(checkStatus(resp))
  ELSE RpcRet(FALSE, resp.session, <<>>, 0, Nil)

\* getMaxLength(typeQualifiers)
getMaxLength(q) ==
  IF ~q.hasLength THEN [length |-> 0, ok |-> FALSE]
  ELSE [length |-> q.length, ok |-> TRUE]

\* getPrecisionScale mutated: the scale qualifier is not required
getPrecisionScale_PrecisionOnly(q) ==
  IF ~q.hasPrecision THEN [precision |-> 0, scale |-> 0, ok |-> FALSE]
  ELSE [precision |-> q.precision, scale |-> IF q.hasScale THEN q.scale ELSE 0,
        ok |-> TRUE]

\* getPrecisionScale(qualifiers)
getPrecisionScale(q) ==
  IF ~q.hasPrecision THEN [precision |-> 0, scale |-> 0, ok |-> FALSE]
  ELSE IF ~q.hasScale THEN [precision |-> 0, scale |-> 0, ok |-> FALSE]
  ELSE [precision |-> q.precision, scale |-> q.scale, ok |-> TRUE]

\* strings.TrimSuffix(entry.Type.String(), "_TYPE"), a type name being its
\* stem and its suffix
TrimSuffix(name, suffix) == IF name.suffix = suffix THEN name.stem ELSE name.stem \o name.suffix

\* the ColDesc GetResultSetMetadata builds of one column of the response
ColDescOf(desc) ==
  [Name |-> desc.name,
   DatabaseTypeName |-> TrimSuffix(desc.type, "_TYPE"),
   HasLength |-> getMaxLength(desc).ok,
   Length |-> getMaxLength(desc).length,
   Precision |-> getPrecisionScale(desc).precision,
   Scale |-> getPrecisionScale(desc).scale,
   HasPrecisionScale |-> getPrecisionScale(desc).ok]

\* Operation.GetResultSetMetadata on the outcome of its RPC
GetResultSetMetadataRet(resp) ==
  IF resp.rpcErr # Nil THEN FailRet(resp.rpcErr)
  ELSE IF checkStatus(resp) # Nil THEN FailRet(checkStatus(resp))
  ELSE RpcRet(FALSE, 0,
              IF resp.isSetSchema
              THEN [c \in 1..Len(resp.columns) |-> ColDescOf(resp.columns[c])]
              ELSE <<>>,
              0, Nil)

\* calcRowsAffected mutated: the rows-deleted counters are left out
calcRowsAffected_ModifiedOnly(resp) ==
  IF ~resp.hasDml THEN 0 ELSE SumSeq(resp.modified)

\* calcRowsAffected(resp)
calcRowsAffected(resp) ==
  IF ~resp.hasDml THEN 0 ELSE SumSeq(resp.modified) + SumSeq(resp.deleted)

\* Operation.Close mutated: the embedded status is not checked
CloseRet_IgnoresStatus(resp) ==
  IF resp.rpcErr # Nil THEN FailRet(resp.rpcErr)
  ELSE RpcRet(FALSE, 0, <<>>, calcRowsAffected(resp), Nil)

\* Operation.Close on the outcome of its RPC
CloseRet(resp) ==
  IF resp.rpcErr # Nil THEN FailRet(resp.rpcErr)
  ELSE IF checkStatus(resp) # Nil THEN FailRet(checkStatus(resp))
  ELSE RpcRet(FALSE, 0, <<>>, calcRowsAffected(resp), Nil)

\* the columns a server describes: a type and its qualifiers
ServerTypes ==
  {[stem |-> "VARCHAR", suffix |-> "_TYPE"], [stem |-> "DECIMAL", suffix |-> "_TYPE"]}

ServerQualifiers ==
  {[hasLength |-> l, hasPrecision |-> p, hasScale |-> sc] :
     l \in {FALSE}, p \in BOOLEAN, sc \in {FALSE}}
  \cup {[hasLength |-> TRUE, hasPrecision |-> FALSE, hasScale |-> FALSE],
        [hasLength |-> FALSE, hasPrecision |-> FALSE, hasScale |-> TRUE],
        [hasLength |-> FALSE, hasPrecision |-> TRUE, hasScale |-> TRUE]}

ServerColumnDescs ==
  {[name |-> "c", type |-> t, hasLength |-> q.hasLength, length |-> 10,
    hasPrecision |-> q.hasPrecision, precision |-> 9,
    hasScale |-> q.hasScale, scale |-> 2] :
     t \in ServerTypes, q \in ServerQualifiers}

\* the row counts of the entries of a DML result
DmlCounts == {0, 1, 2}

\* an RPC that failed has no response
FailedResp == RpcResp(TransportError("UNKNOWN"), "", 0, FALSE, <<>>, FALSE, <<>>, <<>>)

OpenSessionResps ==
  {FailedResp} \cup {RpcResp(Nil, c, 7, FALSE, <<>>, FALSE, <<>>, <<>>) : c \in ReplyCodes}

MetadataResps ==
  {FailedResp}
  \cup {RpcResp(Nil, c, 0, TRUE, cols, FALSE, <<>>, <<>>) :
          c \in ReplyCodes, cols \in SeqsUpTo(ServerColumnDescs, MaxColumns)}
  \cup {RpcResp(Nil, c, 0, FALSE, <<>>, FALSE, <<>>, <<>>) : c \in ReplyCodes}

CloseResps ==
  {FailedResp}
  \cup {RpcResp(Nil, c, 0, FALSE, <<>>, TRUE, m, d) :
          c \in ReplyCodes,
          m \in SeqsUpTo(DmlCounts, MaxDmlEntries),
          d \in SeqsUpTo(DmlCounts, MaxDmlEntries)}
  \cup {RpcResp(Nil, c, 0, FALSE, <<>>, FALSE, <<>>, <<>>) : c \in ReplyCodes}

RpcInit ==
  /\ lastCall = "none"
  /\ lastResp = NoResp
  /\ lastRet = NoRet

\* Client.OpenSession is called and its RPC returns
OpenSession ==
  /\ lastCall = "none"
  /\ wpc = "idle"
  /\ npc = "none"
  /\ \E resp \in OpenSessionResps :
       /\ lastCall' = "OpenSession"
       /\ lastResp' = resp
       /\ lastRet' = OpenSessionRet(resp)
  /\ UNCHANGED << saslVars, callVars, waitVars, cursorVars >>

\* Operation.GetResultSetMetadata is called and its RPC returns
GetResultSetMetadata ==
  /\ lastCall = "none"
  /\ wpc = "idle"
  /\ npc = "none"
  /\ \E resp \in MetadataResps :
       /\ lastCall' = "GetResultSetMetadata"
       /\ lastResp' = resp
       /\ lastRet' = GetResultSetMetadataRet(resp)
  /\ UNCHANGED << saslVars, callVars, waitVars, cursorVars >>

\* Operation.Close is called and its RPC returns
OperationClose ==
  /\ lastCall = "none"
  /\ wpc = "idle"
  /\ npc = "none"
  /\ \E resp \in CloseResps :
       /\ lastCall' = "Close"
       /\ lastResp' = resp
       /\ lastRet' = CloseRet(resp)
  /\ UNCHANGED << saslVars, callVars, waitVars, cursorVars >>

(***************************************************************************)
(* Specifications.                                                         *)
(***************************************************************************)
\* the transport alone: no operation is started
SaslSpecInit ==
  /\ SaslInit
  /\ CallInit /\ ctxErr = Nil
  /\ WaitInit
  /\ schema = << "INT" >> /\ maxRows = OpMaxRows /\ srvBatches = 0
  /\ CursorInit
  /\ RpcInit

SaslSpec == SaslSpecInit /\ [][SaslNext]_vars

\* a server that keeps to the exchange: it sends one negotiation message for
\* the client's START and initial response, and one for each later response
ServerAnswer(status, body) ==
  /\ Len(srvLog) < Len(wireOut) - 1
  /\ ServerNeg(status, body)

\* the negotiation of Open with such a server, and the flushes after it
NegInit ==
  /\ SaslInit
  /\ CallInit /\ ctxErr = Nil
  /\ WaitInit
  /\ schema = << "INT" >> /\ maxRows = OpMaxRows
  /\ srvBatches = 0
  /\ CursorInit
  /\ RpcInit

NegNext ==
  \/ \E fault \in OpenFaults : OpenStart(fault)
  \/ \E fault \in RecvFaults, stepOk \in BOOLEAN : OpenRecv(fault, stepOk)
  \/ \E ok \in BOOLEAN : Flush(ok)
  \/ \E status \in NegStatuses, body \in NegPayloads : ServerAnswer(status, body)
  \/ ServerClose

NegSpec == NegInit /\ [][NegNext]_vars

\* the outbound side of the framed phase: Open with PLAIN, then the
\* application's writes and flushes
FrameInit ==
  /\ SaslInit /\ mechKind = "PLAIN" /\ username = <<97>> /\ transOpen
  /\ CallInit /\ ctxErr = Nil
  /\ WaitInit
  /\ schema = << "INT" >> /\ maxRows = OpMaxRows
  /\ srvBatches = 0
  /\ CursorInit
  /\ RpcInit

FrameNext ==
  \/ \E fault \in OpenFaults : OpenStart(fault)
  \/ \E fault \in RecvFaults, stepOk \in BOOLEAN : OpenRecv(fault, stepOk)
  \/ \E status \in NegStatuses, body \in NegPayloads : ServerAnswer(status, body)
  \/ \E n \in 0..MaxPayload : Write(n)
  \/ \E ok \in BOOLEAN : Flush(ok)

FrameSpec == FrameInit /\ [][FrameNext]_vars

\* the framed phase after a negotiation without payloads: the client flushes
\* requests, the server answers each with a frame, the client reads
ReadNext ==
  \/ \E fault \in OpenFaults : OpenStart(fault)
  \/ \E fault \in RecvFaults, stepOk \in BOOLEAN : OpenRecv(fault, stepOk)
  \/ ServerAnswer(StatusComplete, << >>)
  \/ \E ok \in BOOLEAN : Flush(ok)
  \/ \E n \in 0..MaxPayload : PeerFlush(n)
  \/ \E k \in 0..MaxReadBuf : Read(k)

ReadSpec == FrameInit /\ [][ReadNext]_vars

\* the operation lifecycle over an opened connection: one WaitToFinish, or
\* FetchResults and the Next calls on its ResultSet, or one of the calls of
\* one RPC
OpInit ==
  /\ SaslInit /\ mechKind = "PLAIN" /\ username = <<97>> /\ ~transOpen
  /\ CallInit
  /\ WaitInit
  /\ schema = << "INT", "TIMESTAMP" >> /\ maxRows = OpMaxRows
  /\ srvBatches = MaxBatches
  /\ CursorInit
  /\ RpcInit

OpNext ==
  \/ \E e \in CtxErrors : WaitCtxDone(e)
  \/ WaitStart
  \/ \E resp \in StatusResps : StatusReturn(resp)
  \/ \E byTimer \in BOOLEAN : WaitSleepEnd(byTimer)
  \/ \E e \in CtxErrors : CursorCtxDone(e)
  \/ FetchResults
  \/ NextCall
  \/ FetchReturns
  \/ \E byTimer \in BOOLEAN : FetchSleepEnd(byTimer)
  \/ OpenSession
  \/ GetResultSetMetadata
  \/ OperationClose

OpSpec == OpInit /\ [][OpNext]_vars

\* decoding: one batch of up to DecodeMaxRows rows of one column, of every
\* type name, read to its end; a fetch that is told to wait is not pursued
DecodeInit ==
  /\ SaslInit /\ mechKind = "PLAIN" /\ username = <<97>> /\ ~transOpen
  /\ CallInit /\ ctxErr = Nil
  /\ WaitInit
  /\ schema \in {<< t >> : t \in TypeNames} /\ maxRows = DecodeMaxRows
  /\ srvBatches = 1
  /\ CursorInit
  /\ RpcInit

DecodeNext ==
  \/ FetchResults
  \/ NextCall
  \/ FetchReturns

DecodeSpec == DecodeInit /\ [][DecodeNext]_vars

\* reading a result to its end: up to MaxBatches batches of up to
\* DecodeMaxRows rows of one INT column, with a context that is never done
ScanInit ==
  /\ SaslInit /\ mechKind = "PLAIN" /\ username = <<97>> /\ ~transOpen
  /\ CallInit /\ ctxErr = Nil
  /\ WaitInit
  /\ schema = << "INT" >> /\ maxRows = DecodeMaxRows
  /\ srvBatches = MaxBatches
  /\ CursorInit
  /\ RpcInit

\* the answers of the server while a result is read to its end: the
\* failures, still executing, and batches of every size without null rows
ScanAnswers ==
  {FetchAnswer(TransportError("UNKNOWN"), "", FALSE, FALSE, 0, 0, 0, 0)}
  \cup {FetchAnswer(Nil, c, FALSE, FALSE, 0, 0, 0, 0) :
          c \in {"ERROR_STATUS", "STILL_EXECUTING_STATUS"}}
  \cup {FetchAnswer(Nil, "SUCCESS_STATUS", hm, FALSE, 0, 0, 0, 0) : hm \in BOOLEAN}
  \cup {FetchAnswer(Nil, "SUCCESS_STATUS", hm, TRUE, n, n, n, n) :
          n \in BatchSizes, hm \in BOOLEAN}

\* the FetchResults RPC in flight returns one of these answers
ScanFetchReturns ==
  /\ npc = "fetch_rpc"
  /\ \E a \in ScanAnswers : FetchReturn(a)

ScanNext ==
  \/ FetchResults
  \/ NextCall
  \/ ScanFetchReturns
  \/ \E byTimer \in BOOLEAN : FetchSleepEnd(byTimer)

ScanSpec == ScanInit /\ [][ScanNext]_vars

\* the outcomes of a GetOperationStatus RPC while polling is followed to its
\* end: the RPC fails or not, the status code fails or not, and a running, a
\* finished, a failed and a closed operation
PollResps ==
  [rpcErr : {Nil, TransportError("UNKNOWN")},
   code : {"SUCCESS_STATUS", "ERROR_STATUS"},
   state : {"RUNNING_STATE", "FINISHED_STATE", "ERROR_STATE", "CLOSED_STATE"}]

\* WaitToFinish and Next/fetch with RPCs that return and timers that expire
PollNext ==
  \/ \E e \in CtxErrors : WaitCtxDone(e)
  \/ WaitStart
  \/ \E resp \in PollResps : StatusReturn(resp)
  \/ \E byTimer \in BOOLEAN : WaitSleepEnd(byTimer)
  \/ \E e \in CtxErrors : CursorCtxDone(e)
  \/ FetchResults
  \/ NextCall
  \/ ScanFetchReturns
  \/ \E byTimer \in BOOLEAN : FetchSleepEnd(byTimer)

PollSpec ==
  /\ OpInit
  /\ [][PollNext]_vars
  /\ WF_vars(\E resp \in PollResps : StatusReturn(resp))
  /\ WF_vars(\E byTimer \in BOOLEAN : WaitSleepEnd(byTimer))
  /\ WF_vars(ScanFetchReturns)
  /\ WF_vars(\E byTimer \in BOOLEAN : FetchSleepEnd(byTimer))

\* the typed vectors of a TColumn that length() examines
VecKinds ==
  {"BoolVal", "ByteVal", "I16Val", "I32Val", "I64Val", "StringVal", "DoubleVal"}

\* values per vector, and columns without a populated vector per row set, of
\* the row sets measured
MaxVecLen == 2
MaxEmptyColumns == 1

\* a column with the vector of kind vk populated with n values and no nulls
ColumnOfKind(vk, n) ==
  [NilColumn EXCEPT ![vk] = Vec([r \in 1..n |-> V(GoKind(vk), r, "")], BitmapOf({}, n))]

\* the columns with one typed vector populated
PopulatedColumns == {ColumnOfKind(vk, n) : vk \in VecKinds, n \in 0..MaxVecLen}

\* the row sets measured: nil, or some columns with no populated vector (as a
\* binary column is for length) followed by none, one or two populated columns
MeasuredRowSets ==
  {NilRowSet}
  \cup {[isNil |-> FALSE, Columns |-> [c \in 1..k |-> NilColumn] \o tail] :
          k \in 0..MaxEmptyColumns,
          tail \in {<< >>} \cup {<< c >> : c \in PopulatedColumns}
                   \cup (PopulatedColumns \X PopulatedColumns)}

\* Next has received a response and assigned rs.result, rs.more and rs.idx
LengthInit ==
  /\ SaslInit /\ mechKind = "PLAIN" /\ username = <<97>> /\ ~transOpen
  /\ CallInit /\ ctxErr = Nil
  /\ WaitInit
  /\ RpcInit
  /\ schema = << "INT" >> /\ maxRows = DecodeMaxRows /\ srvBatches = 0
  /\ npc = "measure"
  /\ result \in MeasuredRowSets
  /\ idx = 0 /\ rsLength = 0 /\ more = FALSE
  /\ dest = << VNil >>
  /\ nret = Nil
  /\ fetchCalls = 1
  /\ installed = << >>
  /\ curBatch = [n |-> 0, nulls |-> {}, bad |-> -1]
  /\ lastFetch = [rpcErr |-> Nil, code |-> "SUCCESS_STATUS"]
  /\ delivered = << >>
  /\ eofAt = -1

\* rs.length = length(rs.result)
MeasureBatch ==
  /\ npc = "measure"
  /\ rsLength' = length(result)
  /\ npc' = "measured"
  /\ UNCHANGED << idx, more, result, schema, dest, nret, maxRows, srvBatches,
                  fetchCalls, installed, curBatch, lastFetch, delivered, eofAt >>
  /\ UNCHANGED << saslVars, callVars, waitVars, rpcVars >>

\* the loop test of Next after the measure, with more false: the end of the
\* rows, or a row to decode
MeasuredLoopTest ==
  /\ npc = "measured"
  /\ npc' = IF idx >= rsLength THEN "at_end" ELSE "at_row"
  /\ UNCHANGED << idx, rsLength, more, result, schema, dest, nret, maxRows,
                  srvBatches, fetchCalls, installed, curBatch, lastFetch, delivered,
                  eofAt >>
  /\ UNCHANGED << saslVars, callVars, waitVars, rpcVars >>

LengthNext ==
  \/ MeasureBatch
  \/ MeasuredLoopTest

LengthSpec == LengthInit /\ [][LengthNext]_vars

(***************************************************************************)
(* Properties of the operation lifecycle.                                  *)
(***************************************************************************)
\* C4: WaitToFinish checks the context after every status RPC: when the
\* status check that ended the call passed (no RPC error, a success status, no
\* failure state) while the context was already done, WaitToFinish returns the
\* context's error; and a WaitToFinish entered with a cancelled context issues
\* at least one status RPC and, its last check passing, returns
\* context.Canceled.
C4_CtxCheckedAfterEveryStatusRpc ==
  wpc = "done" =>
    /\ (lastReport.ctx # Nil /\ CheckStateAndStatus(lastReport).err = Nil)
         => wret = lastReport.ctx
    /\ ctxAtEntry = Canceled =>
         /\ rpcs >= 1
         /\ CheckStateAndStatus(lastReport).err = Nil => wret = Canceled

\* C4 for the status checks inside the loop of WaitToFinish
C4_HoldsInsideLoop ==
  (wpc = "done" /\ lastReport.inLoop /\ lastReport.ctx # Nil
     /\ CheckStateAndStatus(lastReport).err = Nil)
    => wret = lastReport.ctx

\* a check inside the loop has passed with the context done
C4_LoopCheckWithDoneCtx ==
  /\ wpc = "done" /\ lastReport.inLoop /\ lastReport.ctx = Canceled
  /\ lastReport.rpcErr = Nil /\ lastReport.state = "FINISHED_STATE"
  /\ lastReport.code = "SUCCESS_STATUS"

C6_BackoffSequence ==
  /\ \A k \in 1..Len(sleeps) : sleeps[k] = Min(100 * (2 ^ (k - 1)), 1000)
  /\ \A k \in 1..Len(sleeps) : sleeps[k] <= 1000
  /\ \A k \in 2..Len(sleeps) : sleeps[k - 1] <= sleeps[k]

\* C6 is read on the sleeps of a WaitToFinish as well as on those of a fetch
C6_WaitReachesCeiling ==
  wpc = "sleep" /\ Len(sleeps) = 6 /\ sleeps[5] = 1000 /\ sleeps[6] = 1000

\* a fetch has requested six sleeps, the last two at the ceiling
C6_FetchReachesCeiling ==
  npc = "fetch_sleep" /\ Len(sleeps) = 6 /\ sleeps[4] = 800 /\ sleeps[5] = 1000
    /\ sleeps[6] = 1000

\* C7: when Next installs a batch without rows whose hasMoreRows is true it
\* calls fetch again within the same call and does not return; when it
\* installs a batch without rows whose hasMoreRows is false it returns io.EOF;
\* and once io.EOF has been returned no further row is delivered.
C7_ZeroRowBatches ==
  /\ [](eofAt # -1 => Len(delivered) = eofAt)
  /\ [][installed' # installed =>
          LET b == installed'[Len(installed')]
          IN /\ (b.n = 0 /\ b.hasMoreRows) =>
                  /\ npc' = "fetch_rpc"
                  /\ fetchCalls' = fetchCalls + 1
                  /\ nret' = nret
                  /\ more'
             /\ (b.n = 0 /\ ~b.hasMoreRows) =>
                  /\ npc' = "done"
                  /\ nret' = IoEOF
                  /\ delivered' = delivered]_vars

\* one Next has installed an empty batch with hasMoreRows, fetched again,
\* installed an empty batch without hasMoreRows and returned io.EOF
C7_EmptyThenEnd ==
  /\ npc = "done" /\ nret = IoEOF /\ fetchCalls = 2
  /\ Len(installed) = 2 /\ delivered = <<>>
  /\ installed[1].n = 0 /\ installed[1].hasMoreRows
  /\ installed[2].n = 0 /\ ~installed[2].hasMoreRows

\* C8: when Next has delivered row i of the batch, a column is nil exactly
\* when row i is null in the batch, that is when bit i%8 of byte i/8 of the
\* vector's null bitmap is set, and otherwise it is the scalar Values[i] of
\* the vector (parsed, for a timestamp); the scalar stored under a null is
\* never reported.
C8_NullBitmapDecoding ==
  (npc = "done" /\ nret = Nil /\ delivered # <<>>) =>
    LET i == delivered[Len(delivered)][2]
        b == delivered[Len(delivered)][1]
    IN \A c \in 1..Len(dest) :
         LET vk == ServerVecKind(schema[c])
             byte == result.Columns[c][vk].Nulls[(i \div 8) + 1]
             bit == (byte \div (2 ^ (i % 8))) % 2
         IN /\ b = Len(installed)
            /\ i < curBatch.n
            /\ dest[c] = VNil <=> bit = 1
            /\ dest[c] = VNil <=> i \in curBatch.nulls
            /\ bit = 0 =>
                 /\ dest[c].n = result.Columns[c][vk].Values[i + 1].n
                 /\ dest[c].n = 100 * b + i
                 /\ dest[c].kind = IF schema[c] \in TimestampTypes
                                   THEN "time.Time" ELSE GoKind(vk)

\* of a batch of ten rows whose rows 3 and 7 are null, row 7 has just been
\* delivered as nil after row 6 as a value
C8_TenRowsBits3And7 ==
  /\ npc = "done" /\ nret = Nil
  /\ Len(installed) = 1 /\ curBatch.n = 10 /\ curBatch.nulls = {3, 7}
  /\ idx = 8 /\ dest[1] = VNil
  /\ result.Columns[1][ServerVecKind(schema[1])].Nulls = << 136, 0 >>

\* C9: when the context is done and every status poll, or every fetch, of
\* the call has reported the statement still executing, the call has issued
\* at most one RPC with the context done, no sleep has run to its timer with
\* the context done, and the call, once it returns, returns the context's
\* error.
C9_CancellationBounded ==
  (ctxErr # Nil /\ allRunning) =>
    /\ rpcsAfterDone <= 1
    /\ lateSleeps = 0
    /\ (wpc = "done" /\ lastReport.ctx # Nil) => wret = ctxErr
    /\ (npc = "done" /\ fetchCalls >= 1) => nret = ctxErr

\* C9 for a context that becomes done during the call, and for fetch/Next
C9_HoldsWhenDoneDuringCall ==
  (ctxAtEntry = Nil \/ npc # "none") => C9_CancellationBounded

\* a fetch of a still-executing statement was cut short by the context: one
\* RPC was issued after the context became done and Next returned its error
C9_FetchCutShort ==
  /\ npc = "done" /\ allRunning /\ ctxAtEntry = Nil /\ nret = DeadlineExceeded
  /\ rpcsAfterDone = 1 /\ Len(sleeps) >= 1

C11_FailureStatesEndWait ==
  /\ [][(wpc = "check" /\ wpc' # "check"
           /\ lastReport'.rpcErr = Nil /\ lastReport'.code = "SUCCESS_STATUS"
           /\ lastReport'.state \in {"ERROR_STATE", "CANCELED_STATE"})
          => /\ wpc' = "done"
             /\ wret' # Nil
             /\ ChainHas(wret', "state")
             /\ wret'[1].info = lastReport'.state
             /\ sleeps' = sleeps]_vars
  /\ [][wpc = "done" => (wpc' = "done" /\ rpcs' = rpcs /\ wret' = wret)]_vars

\* a WaitToFinish ended on a reported ERROR state, after one sleep
C11_ErrorStateReported ==
  /\ wpc = "done" /\ rpcs = 2 /\ Len(sleeps) = 1 /\ lastReport.ctx = Nil
  /\ lastReport.rpcErr = Nil /\ lastReport.code = "SUCCESS_STATUS"
  /\ lastReport.state = "ERROR_STATE"
  /\ wret = <<Err("state", "ERROR_STATE", 0)>>

\* the status codes of TStatusCode, and those that are success codes
AllStatusCodes ==
  {"SUCCESS_STATUS", "SUCCESS_WITH_INFO_STATUS", "STILL_EXECUTING_STATUS",
   "ERROR_STATUS", "INVALID_HANDLE_STATUS"}

SuccessCodes == {"SUCCESS_STATUS", "SUCCESS_WITH_INFO_STATUS"}

\* every one of the five calls whose RPC returned, without a transport error,
\* a status code of bad returns a non-nil error and no usable result
EmbeddedStatusFails(bad) ==
  /\ (lastCall' # "none" /\ lastResp'.rpcErr = Nil /\ lastResp'.code \in bad)
       => /\ lastRet'.err # Nil
          /\ lastRet' = FailRet(lastRet'.err)
  /\ (wpc = "check" /\ wpc' # "check" /\ lastReport'.rpcErr = Nil
        /\ lastReport'.code \in bad)
       => /\ CheckStateAndStatus(lastReport').err # Nil
          /\ CheckStateAndStatus(lastReport').state = ZeroState
          /\ wpc' = "done"
          /\ wret' = CheckStateAndStatus(lastReport').err
  /\ (npc = "fetch_rpc" /\ npc' # "fetch_rpc" /\ ctxErr' = ctxErr
        /\ lastFetch'.rpcErr = Nil /\ lastFetch'.code \in bad)
       => /\ npc' = "done"
          /\ nret' # Nil
          /\ installed' = installed
          /\ result' = result
          /\ delivered' = delivered

\* C12 as stated: for each of OpenSession, GetResultSetMetadata,
\* CheckStateAndStatus, fetch and Operation.Close, an RPC that returns
\* without a transport error but with a status code that is not a success
\* code makes the call return a non-nil error and no usable result.
C12_NonSuccessStatusFails ==
  [][EmbeddedStatusFails(AllStatusCodes \ SuccessCodes)]_vars

\* C12, amended: for each of the five calls, an RPC that returns without a
\* transport error but with the status code ERROR_STATUS or
\* INVALID_HANDLE_STATUS makes the call return a non-nil error and no usable
\* result (nil session, nil schema, state 0, no batch handed to the cursor,
\* row count 0); STILL_EXECUTING_STATUS is no failure: fetch sleeps and asks
\* again.
C12_FailingStatusFails ==
  [][EmbeddedStatusFails({"ERROR_STATUS", "INVALID_HANDLE_STATUS"})]_vars

\* Close answered INVALID_HANDLE_STATUS beside a DML result that counts rows:
\* the call returns the status error and the row count 0
C12_CloseFailsOnStatus ==
  /\ lastCall = "Close"
  /\ lastResp.rpcErr = Nil
  /\ lastResp.code = "INVALID_HANDLE_STATUS"
  /\ lastResp.hasDml
  /\ SumSeq(lastResp.modified) > 0
  /\ lastRet = FailRet(<<Err("status", "INVALID_HANDLE_STATUS", 0)>>)

\* C13: Operation.Close, on a successful close RPC, returns as affected-row
\* count the sum of all rows-modified counters plus all rows-deleted
\* counters over every entry of the DML result, and 0 when the response
\* carries no DML result; a single-row INSERT yields 1.
C13_CloseSumsDmlCounters ==
  (lastCall = "Close" /\ lastResp.rpcErr = Nil /\ lastResp.code \in SuccessCodes)
    => /\ lastRet.err = Nil
       /\ lastResp.hasDml
            => lastRet.rows = SumSeq(lastResp.modified) + SumSeq(lastResp.deleted)
       /\ ~lastResp.hasDml => lastRet.rows = 0
       /\ (lastResp.hasDml /\ lastResp.modified = <<1>> /\ lastResp.deleted = <<>>)
            => lastRet.rows = 1

\* a close answered with two modified entries and one deleted entry
C13_ModifiedAndDeleted ==
  /\ lastCall = "Close"
  /\ lastResp.rpcErr = Nil
  /\ lastResp.code = "SUCCESS_STATUS"
  /\ lastResp.hasDml
  /\ lastResp.modified = <<1, 2>>
  /\ lastResp.deleted = <<2>>
  /\ lastRet.err = Nil
  /\ lastRet.rows = 5

\* the vector the claimed mapping of value() names for a type name
MappedVector(t) ==
  CASE t = "TINYINT" -> "ByteVal"
    [] t = "SMALLINT" -> "I16Val"
    [] t = "INT" -> "I32Val"
    [] t = "BIGINT" -> "I64Val"
    [] t = "BOOLEAN" -> "BoolVal"
    [] t \in {"FLOAT", "DOUBLE", "REAL"} -> "DoubleVal"
    [] OTHER -> "StringVal"

\* the last Next decoded its row by the claimed mapping, for the type
\* names of types
DecodedByMapping(types) ==
  /\ (npc = "panicked" /\ nret = PanicNilDeref) => schema[1] \notin types
  /\ (npc = "done" /\ nret = Nil /\ delivered # <<>> /\ schema[1] \in types) =>
       LET i == delivered[Len(delivered)][2]
           vec == result.Columns[1][MappedVector(schema[1])]
       IN /\ vec.set
          /\ i \notin curBatch.nulls =>
               /\ dest[1].n = vec.Values[i + 1].n
               /\ dest[1].s = vec.Values[i + 1].s
               /\ dest[1].kind = IF schema[1] \in TimestampTypes THEN "time.Time"
                                 ELSE GoKind(MappedVector(schema[1]))

\* C14: value() decodes STRING/CHAR/VARCHAR and any unrecognized type name
\* from the string vector, unchanged; TINYINT from the byte vector; SMALLINT
\* from the 16-bit vector; INT from the 32-bit vector; BIGINT from the 64-bit
\* vector; BOOLEAN from the bool vector; each of FLOAT, DOUBLE and REAL from
\* the 64-bit float vector; TIMESTAMP/DATETIME from the string vector parsed
\* as a timestamp.
C14_TypeToVectorMapping == DecodedByMapping(TypeNames)

\* the mapping holds for every type name but REAL
C14_HoldsExceptReal == DecodedByMapping(TypeNames \ {"REAL"})

\* a row of a DOUBLE column and of a CHAR column delivered from their vectors
C14_DoubleRowDecoded ==
  /\ npc = "done" /\ nret = Nil /\ delivered # <<>>
  /\ schema = << "DOUBLE" >>
  /\ dest[1].kind = "float64"
  /\ result.Columns[1].DoubleVal.set

\* err holds an AuthError with the attempted username that unwraps to a cause
CarriesIdentity(err) ==
  \E i \in 1..(Len(err) - 1) : err[i] = Err("AuthError", username, 0)

\* Open failed in the negotiation, the transport itself not having failed:
\* on a status other than OK / COMPLETE, on a challenge the mechanism
\* rejects, or on end of stream
NegotiationFailure == tpc = "failed" /\ ~faulted

\* C15: every negotiation failure of Open (a BAD/ERROR status from the
\* server, an unexpected server challenge, or end of stream during the
\* handshake) yields an error that carries the attempted username and
\* unwraps to the underlying cause; stated for the PLAIN mechanism.
C15_NegotiationFailureCarriesIdentity ==
  (mechKind = "PLAIN" /\ NegotiationFailure) => CarriesIdentity(openErr)

\* of the negotiation failures, end of stream does yield such an error
C15_HoldsForEndOfStream ==
  (mechKind = "PLAIN" /\ NegotiationFailure /\ ChainHas(openErr, "TTransportException"))
    => (CarriesIdentity(openErr) /\ openErr[Len(openErr)] = TransportError("END_OF_FILE")[1])

\* C16: FetchResults performs no RPC: it returns a ResultSet with idx = 0,
\* length = 0, no batch and more = true; the first FetchResults RPC of an
\* operation is issued only from within a call to ResultSet.Next.
C16_FetchResultsIsLazy ==
  /\ [](npc = "ready" =>
          /\ idx = 0 /\ rsLength = 0 /\ result = NilRowSet /\ more
          /\ rpcs = 0 /\ installed = <<>> /\ fetchCalls = 0)
  /\ [][(npc = "none" /\ npc' # "none") => (npc' = "ready" /\ rpcs' = rpcs)]_vars
  /\ [][(npc # "fetch_rpc" /\ npc' = "fetch_rpc")
          => (npc \in {"ready", "done", "fetch_sleep"} /\ fetchCalls' >= 1)]_vars

\* the first RPC is in flight, issued by the first Next on a fresh ResultSet
C16_FirstRpcFromNext ==
  /\ npc = "fetch_rpc"
  /\ rpcs = 1
  /\ fetchCalls = 1
  /\ installed = <<>>
  /\ idx = 0 /\ rsLength = 0 /\ result = NilRowSet /\ more

\* the status the client takes from the message it receives next
ReceivedStatus == receive(mechKind, username, wireIn, Nil).status

\* Open reads a negotiation message off the stream in this step
ReceivesMessage == tpc = "recv" /\ Len(wireIn') < Len(wireIn)

\* a write on the underlying transport that is an application frame
IsFrame(w) == Len(w) >= 4 /\ Uint32(Take(w, 4)) = Len(w) - 4

\* C17: during Open, once a COMPLETE message has been received the client
\* sends no further negotiation message, and once a message with a status
\* other than OK / COMPLETE has been received the client sends no further
\* negotiation message and Open returns failure.
C17_TerminalStatusEndsNegotiation ==
  /\ [][(ReceivesMessage /\ ReceivedStatus = StatusComplete)
          => (wireOut' = wireOut /\ tpc' = "open" /\ openErr' = Nil)]_vars
  /\ [][(ReceivesMessage /\ ReceivedStatus \notin {StatusOK, StatusComplete})
          => (wireOut' = wireOut /\ tpc' = "failed" /\ openErr' # Nil)]_vars
  /\ [][tpc = "failed" => (tpc' = "failed" /\ wireOut' = wireOut)]_vars
  /\ [][tpc = "open"
          => /\ tpc' = "open"
             /\ \/ wireOut' = wireOut
                \/ /\ Len(wireOut') = Len(wireOut) + 1
                   /\ SubSeq(wireOut', 1, Len(wireOut)) = wireOut
                   /\ IsFrame(wireOut'[Len(wireOut')])]_vars

\* one challenge answered, then COMPLETE received: three negotiation messages
\* were sent, and the next write is a frame
C17_CompleteThenFrame ==
  /\ tpc = "open"
  /\ mechKind = "GSSAPI"
  /\ Len(srvLog) = 2 /\ srvLog[1].status = StatusOK /\ NoNegPayload
  /\ Len(challenges) = 1
  /\ Len(wireOut) = 4
  /\ wireOut[3] = NegMessage(StatusOK, GssToken)
  /\ IsFrame(wireOut[4])

\* the writes of the negotiation: START, the initial response, one response
\* per challenge
NegWrites == 2 + Len(challenges)

\* the payloads of the frames on the wire, in order, then the buffered bytes
RECURSIVE FramedBytes(_, _)
FramedBytes(out, k) ==
  IF k > Len(out) THEN <<>> ELSE Drop(out[k], 4) \o FramedBytes(out, k + 1)

StrictlyIncreasing(q) == \A i \in 1..(Len(q) - 1) : q[i] < q[i + 1]

\* C18: Write only appends to the outbound buffer and puts no byte on the
\* underlying transport; each Flush emits, as a single underlying write,
\* exactly one frame: the 4-byte big-endian length of all bytes written
\* since the previous Flush, then those bytes in write order; so every
\* written byte appears on the wire in exactly one frame.
C18_WriteBuffersFlushFrames ==
  /\ [][(tpc = "open" /\ writes' = writes + 1)
          => /\ wireOut' = wireOut
             /\ IsPrefix(wbuf, wbuf')
             /\ \A i \in (Len(wbuf) + 1)..Len(wbuf') :
                  wbuf'[i] = 128 + 16 * writes + (i - Len(wbuf))]_vars
  /\ [][(tpc = "open" /\ flushes' = flushes + 1 /\ flushRes' = Nil)
          => /\ Len(wireOut') = Len(wireOut) + 1
             /\ SubSeq(wireOut', 1, Len(wireOut)) = wireOut
             /\ Len(wireOut'[Len(wireOut')]) = 4 + Len(wbuf)
             /\ Uint32(Take(wireOut'[Len(wireOut')], 4)) = Len(wbuf)
             /\ Drop(wireOut'[Len(wireOut')], 4) = wbuf
             /\ wbuf' = <<>>]_vars
  /\ []((tpc = "open" /\ ~faulted)
          => /\ \A k \in (NegWrites + 1)..Len(wireOut) : IsFrame(wireOut[k])
             /\ StrictlyIncreasing(FramedBytes(wireOut, NegWrites + 1) \o wbuf))

\* two writes flushed as one frame, then a flush with nothing written since
C18_TwoWritesOneFrame ==
  /\ tpc = "open" /\ ~faulted
  /\ writes = 2 /\ flushes = 2
  /\ Len(wireOut) = NegWrites + 2
  /\ wireOut[NegWrites + 1] = <<0, 0, 0, 2, 129, 145>>
  /\ wireOut[NegWrites + 2] = <<0, 0, 0, 0>>
  /\ wbuf = <<>>

\* the negotiation messages with the given status among the writes out
RECURSIVE CountStatus(_, _)
CountStatus(out, status) ==
  IF out = <<>> THEN 0
  ELSE (IF Head(out)[1] = status THEN 1 ELSE 0) + CountStatus(Tail(out), status)

\* the name of the configured mechanism, as bytes
MechName == IF mechKind = "PLAIN" THEN MechPlain ELSE MechGSSAPI

\* C19: Open sends exactly one START message whose payload is the mechanism
\* name, then exactly one OK message whose payload is the mechanism's initial
\* response, both before it reads anything from the server; thereafter it
\* sends exactly one OK message per OK challenge received, after that
\* challenge and before the next read (none when the mechanism rejects the
\* challenge or the write fails: Open then returns the failure).
C19_NegotiationOrdering ==
  /\ []((tpc \in {"recv", "open"} \/ (tpc = "failed" /\ Len(wireOut) >= 2))
          => /\ wireOut[1] = <<StatusStart>> \o BE32(Len(MechName)) \o MechName
             /\ wireOut[2][1] = StatusOK
             /\ Drop(wireOut[2], 5) = SaslStart(mechKind, username, password).initial
             /\ mechKind = "PLAIN"
                  => Drop(wireOut[2], 5) = username \o <<0>> \o username \o <<0>> \o password
             /\ CountStatus(wireOut, StatusStart) = 1)
  /\ [](tpc = "recv" => CountStatus(wireOut, StatusOK) = 1 + Len(challenges))
  /\ [][Len(wireIn') < Len(wireIn) => Len(wireOut) >= 2]_vars
  /\ [][(ReceivesMessage /\ ReceivedStatus = StatusOK)
          => /\ challenges' = Append(challenges, receive(mechKind, username, wireIn, Nil).challenge)
             /\ \/ /\ tpc' = "recv"
                   /\ Len(wireOut') = Len(wireOut) + 1
                   /\ SubSeq(wireOut', 1, Len(wireOut)) = wireOut
                   /\ wireOut'[Len(wireOut')][1] = StatusOK
                \/ /\ tpc' = "failed"
                   /\ openErr' # Nil
                   /\ wireOut' = wireOut]_vars
  /\ [][(ReceivesMessage /\ ReceivedStatus # StatusOK) => wireOut' = wireOut]_vars

\* two challenges answered in turn: START, the initial response and two more
\* OK messages are on the wire
C19_TwoChallengesAnswered ==
  /\ tpc = "recv"
  /\ mechKind = "GSSAPI"
  /\ Len(challenges) = 2
  /\ Len(wireOut) = 4
  /\ wireOut[1] = NegMessage(StatusStart, MechGSSAPI)
  /\ wireOut[3][1] = StatusOK /\ wireOut[4][1] = StatusOK
  /\ wireIn = <<>>

\* C20: each negotiation message received during Open is consumed whole
\* (status, 4-byte length, and that many payload bytes) and the payload
\* bytes are the challenge handed to the mechanism's Step; so when Open has
\* succeeded nothing of the negotiation is left on the stream, whatever
\* payloads the server's OK / COMPLETE messages carried.
C20_NegMessagesConsumedWhole ==
  /\ \A k \in 1..Len(challenges) :
       k <= Len(srvLog) /\ challenges[k] = srvLog[k].body
  /\ tpc = "open" => wireIn = <<>>

\* what does hold: the challenge is the four length bytes of the message,
\* and the stream is left clean when no message carried a payload
C20_HoldsWithoutNegPayload ==
  NoNegPayload =>
    /\ \A k \in 1..Len(challenges) :
         k <= Len(srvLog) /\ challenges[k] = BE32(Len(srvLog[k].body))
    /\ tpc = "open" => wireIn = <<>>

\* C21: with the PLAIN mechanism Step fails with the unexpected-server-
\* challenge error for every input; so Open succeeds only if the first
\* message received from the server is COMPLETE, and on an OK challenge Open
\* fails without sending any further message: the client has sent exactly
\* two negotiation messages.
C21_PlainRejectsChallenges ==
  mechKind = "PLAIN" =>
    /\ \A k \in 1..Len(challenges) :
         PlainStep(challenges[k]).err = ErrUnexpectedServerChallenge
    /\ tpc = "open" =>
         /\ srvLog # <<>>
         /\ srvLog[1].status = StatusComplete
         /\ challenges = <<>>
         /\ Len(wireOut) >= 2
         /\ \A k \in 3..Len(wireOut) : IsFrame(wireOut[k])
    /\ challenges # <<>> =>
         /\ Len(challenges) = 1
         /\ tpc = "failed"
         /\ stepFailed
         /\ openErr = NegotiationFailed(ErrUnexpectedServerChallenge)
         /\ Len(wireOut) = 2
         /\ wireOut[1][1] = StatusStart
         /\ wireOut[2][1] = StatusOK

\* a PLAIN handshake that the server answered with an OK challenge
C21_PlainChallenged ==
  /\ mechKind = "PLAIN"
  /\ Len(srvLog) = 1 /\ srvLog[1].status = StatusOK
  /\ challenges # <<>>
  /\ tpc = "failed"
  /\ Len(wireOut) = 2

\* usernames and passwords as byte strings, the empty one and NUL included
CredentialStrings == UNION {[1..n -> {0, 97}] : n \in 0..2}

\* the initial response r is authzid NUL authcid NUL password for (u, p),
\* the authzid being u
IsPlainInitial(r, u, p) ==
  /\ Len(r) = 2 * Len(u) + Len(p) + 2
  /\ SubSeq(r, 1, Len(u)) = u
  /\ r[Len(u) + 1] = 0
  /\ SubSeq(r, Len(u) + 2, 2 * Len(u) + 1) = u
  /\ r[2 * Len(u) + 2] = 0
  /\ SubSeq(r, 2 * Len(u) + 3, Len(r)) = p

\* C22: plain.Start returns the mechanism name "PLAIN", no error, the
\* one-round-trip flag set, and the initial response username, NUL,
\* username, NUL, password, for every username / password pair, and leaves
\* the options as they were.
C22_PlainStart ==
  /\ [](\A u \in CredentialStrings \cup {username}, p \in CredentialStrings \cup {password} :
          /\ PlainStart(u, p).mech = <<80, 76, 65, 73, 78>>
          /\ PlainStart(u, p).err = Nil
          /\ PlainStart(u, p).done
          /\ IsPlainInitial(PlainStart(u, p).initial, u, p))
  /\ []((mechKind = "PLAIN" /\ Len(wireOut) >= 2)
          => /\ Drop(wireOut[1], 5) = <<80, 76, 65, 73, 78>>
             /\ IsPlainInitial(Drop(wireOut[2], 5), username, password))
  /\ [][username' = username /\ password' = password]_vars

\* Open has sent the initial response of user "bc" with password "p"
C22_InitialResponseSent ==
  /\ mechKind = "PLAIN"
  /\ username = <<98, 99>>
  /\ password = <<112>>
  /\ tpc = "recv"
  /\ wireOut[2] = <<StatusOK, 0, 0, 0, 7, 98, 99, 0, 98, 99, 0, 112>>

\* failures of t.trans.Read other than end of stream
OtherReadFailures ==
  {TransportError("TIMED_OUT"), TransportError("UNKNOWN"), TransportError("NOT_OPEN"),
   <<Err("net.OpError", "connection reset", 0)>>}

\* C23: during negotiation only a receive failure that is a transport
\* exception of end-of-file type is converted into an AuthError carrying the
\* username with the original error as cause; any other receive failure is
\* returned by Open wrapped as a negotiation failure whose chain holds no
\* AuthError.
C23_OnlyEndOfFileIsAuthError ==
  /\ \A e \in OtherReadFailures :
       /\ receive(mechKind, username, wireIn, e).err = e
       /\ ~ChainHas(NegotiationFailed(receive(mechKind, username, wireIn, e).err),
                    "AuthError")
  /\ mechKind = "PLAIN" =>
       receive(mechKind, username, <<>>, Nil).err
         = <<Err("AuthError", username, 0)>> \o TransportError("END_OF_FILE")
  /\ (tpc = "failed" /\ ChainHas(openErr, "AuthError")) =>
       /\ mechKind = "PLAIN"
       /\ openErr = Wrap("sasl: negotiation failed.",
                         <<Err("AuthError", username, 0)>> \o TransportError("END_OF_FILE"))
       /\ inClosed /\ wireIn = <<>>
  /\ (tpc = "failed" /\ ChainHas(openErr, "TTransportException")
        /\ openErr[Len(openErr)].info # "END_OF_FILE") =>
       /\ ~ChainHas(openErr, "AuthError")
       /\ faulted
  /\ (mechKind = "PLAIN" /\ tpc = "failed" /\ ChainHas(openErr, "TTransportException")
        /\ openErr[Len(openErr)].info = "END_OF_FILE") =>
       ChainHas(openErr, "AuthError")

\* a read that timed out after a challenge was answered: no AuthError
C23_TimedOutRead ==
  /\ tpc = "failed"
  /\ Len(challenges) = 1
  /\ openErr = NegotiationFailed(TransportError("TIMED_OUT"))

\* the server closed the stream on a PLAIN client: an AuthError
C23_ClosedOnPlain ==
  /\ tpc = "failed"
  /\ mechKind = "PLAIN"
  /\ inClosed
  /\ ChainHas(openErr, "AuthError")

\* C24: Open opens the underlying transport only if it is not already open;
\* if opening it fails, Open returns that transport error unchanged, without
\* starting the mechanism and without sending any negotiation byte.
C24_TransportOpenedOnce ==
  /\ [][(tpc = "new" /\ tpc' # "new")
          => /\ transOpen => (transOpens' = transOpens /\ transOpen')
             /\ ~transOpen => transOpens' = transOpens + 1
             /\ ~transOpen'
                  => /\ tpc' = "failed"
                     /\ openErr' = TransportError("NOT_OPEN")
                     /\ ~ChainHas(openErr', "fmt")
                     /\ mechStarts' = mechStarts
                     /\ wireOut' = wireOut
             /\ transOpen' => mechStarts' = mechStarts + 1]_vars
  /\ [][tpc # "new" => (transOpens' = transOpens /\ mechStarts' = mechStarts)]_vars
  /\ []((tpc = "failed" /\ ~transOpen) => (wireOut = <<>> /\ mechStarts = 0))

\* the underlying transport could not be opened
C24_TransportOpenFailed ==
  /\ tpc = "failed"
  /\ ~transOpen
  /\ transOpens = 1
  /\ mechStarts = 0
  /\ wireOut = <<>>
  /\ openErr = TransportError("NOT_OPEN")

\* this step is a call of ResultSet.Next
IsNextCall == npc \in {"ready", "done"} /\ ctxErr' = ctxErr

\* this step is the return of a FetchResults RPC without a transport error
IsFetchResponse == npc = "fetch_rpc" /\ ctxErr' = ctxErr /\ lastFetch'.rpcErr = Nil

\* C25: fetch issues its first FetchResults RPC without a preceding sleep;
\* on a response it sleeps and issues the RPC again exactly when the
\* response's status is still-executing and the context is not done, and it
\* returns when the status is another one or the context is done; entered
\* with the context done it issues no RPC and returns the context's error.
C25_FetchLoop ==
  /\ [][(IsNextCall /\ idx >= rsLength /\ more)
          => IF ctxErr = Nil
             THEN npc' = "fetch_rpc" /\ rpcs' = 1 /\ sleeps' = <<>>
             ELSE npc' = "done" /\ rpcs' = 0 /\ sleeps' = <<>> /\ nret' = ctxErr]_vars
  /\ [][(IsFetchResponse /\ lastFetch'.code = "STILL_EXECUTING_STATUS")
          => IF ctxErr = Nil
             THEN /\ npc' = "fetch_sleep"
                  /\ sleeps' = Append(sleeps, duration)
                  /\ rpcs' = rpcs
             ELSE /\ npc' = "done"
                  /\ nret' = ctxErr
                  /\ rpcs' = rpcs /\ sleeps' = sleeps]_vars
  /\ [][(IsFetchResponse /\ lastFetch'.code \in SuccessCodes)
          => /\ npc' # "fetch_sleep"
             /\ ctxErr = Nil => Len(installed') = Len(installed) + 1
             /\ ctxErr # Nil
                  => (npc' = "done" /\ nret' = ctxErr /\ rpcs' = rpcs /\ sleeps' = sleeps)]_vars
  /\ [][npc = "fetch_sleep"
          => \/ (npc' = "fetch_rpc" /\ rpcs' = rpcs + 1 /\ sleeps' = sleeps)
             \/ (npc' = "fetch_sleep" /\ rpcs' = rpcs /\ sleeps' = sleeps)]_vars
  /\ [](npc = "fetch_rpc" => rpcs = Len(sleeps) + 1)
  /\ [](npc = "fetch_sleep" => rpcs = Len(sleeps))

\* a fetch that was told twice to wait and returned its third response
C25_ThirdResponseReturned ==
  /\ npc = "done" /\ nret = Nil
  /\ fetchCalls = 1
  /\ rpcs = 3
  /\ sleeps = <<100, 200>>
  /\ Len(installed) = 1
  /\ ctxErr = Nil

\* the rows of the cursor did not change in this step
CursorKept ==
  /\ installed' = installed /\ curBatch' = curBatch
  /\ result' = result /\ idx' = idx /\ rsLength' = rsLength /\ more' = more
  /\ dest' = dest /\ delivered' = delivered

\* C26: when the context is done as a FetchResults RPC returns without a
\* failure, Next returns the context's error and installs nothing: the
\* cursor keeps the batch, the position and the flag it had, the response's
\* rows are not delivered, and every row ever delivered is a row of an
\* installed batch.
C26_CancelledResponseDiscarded ==
  /\ [][(/\ IsFetchResponse
          /\ lastFetch'.code \in SuccessCodes \cup {"STILL_EXECUTING_STATUS"}
          /\ ctxErr # Nil)
          => (npc' = "done" /\ nret' = ctxErr /\ CursorKept)]_vars
  /\ [](\A k \in 1..Len(delivered) :
          /\ delivered[k][1] \in 1..Len(installed)
          /\ delivered[k][2] < installed[delivered[k][1]].n)
  /\ [](Len(installed) <= MaxBatches - srvBatches)

\* the server handed out two batches and the cursor installed one of them:
\* the other came back to a done context and Next returned the context's error
C26_BatchLost ==
  /\ npc = "done"
  /\ ctxErr # Nil
  /\ srvBatches = MaxBatches - 2
  /\ Len(installed) = 1
  /\ Len(delivered) >= 1

\* the RPCs on the operation handle that were issued and have not returned
InFlight ==
  (IF wpc = "check" THEN 1 ELSE 0) + (IF npc = "fetch_rpc" THEN 1 ELSE 0)

\* C27: with one caller, at most one RPC on the operation handle is in
\* flight: WaitToFinish and fetch issue an RPC only when none is in flight,
\* and GetResultSetMetadata, Close and OpenSession are called, and return,
\* with none in flight.
C27_OneRpcInFlight ==
  /\ [](InFlight <= 1)
  /\ [][rpcs' = rpcs + 1 => (InFlight = 0 /\ InFlight' = 1)]_vars
  /\ [][lastCall' # lastCall => (InFlight = 0 /\ InFlight' = 0)]_vars
  /\ [](wpc = "sleep" \/ npc = "fetch_sleep" => InFlight = 0)

\* the third GetOperationStatus RPC of a WaitToFinish is in flight, after two
\* sleeps
C27_ThirdPollInFlight ==
  /\ wpc = "check"
  /\ rpcs = 3
  /\ Len(sleeps) = 2
  /\ InFlight = 1

\* a backoff sleep of WaitToFinish or of fetch is running
Sleeping == wpc = "sleep" \/ npc = "fetch_sleep"

\* C28: a backoff sleep ends at the earlier of its timer and the context
\* becoming done: no sleep of at least the initial backoff runs to its timer
\* with the context done; a sleep with the context done can end at once,
\* and ending is all it does; a sleep with the context not done ends by its
\* timer or goes on with the context done.
C28_SleepRacesContext ==
  /\ [](lateSleeps = 0)
  /\ [](\A k \in 1..Len(sleeps) : sleeps[k] >= initialBackoff)
  /\ []((Sleeping /\ ctxErr # Nil /\ rpcs < MaxPolls)
          => ENABLED (WaitSleepEnd(FALSE) \/ FetchSleepEnd(FALSE)))
  /\ [][(Sleeping /\ ctxErr # Nil)
          => (~Sleeping' /\ rpcs' = rpcs + 1 /\ sleeps' = sleeps /\ ctxErr' = ctxErr)]_vars
  /\ [][(Sleeping /\ ctxErr = Nil)
          => \/ (Sleeping' /\ ctxErr' # Nil /\ rpcs' = rpcs)
             \/ (~Sleeping' /\ ctxErr' = Nil /\ rpcs' = rpcs + 1)]_vars

\* the context became done during the first sleep of a fetch, and the second
\* FetchResults RPC is in flight
C28_SleepCutShort ==
  /\ npc = "fetch_rpc"
  /\ ctxAtEntry = Nil /\ ctxErr # Nil
  /\ rpcs = 2 /\ rpcsAfterDone = 1
  /\ sleeps = << initialBackoff >>

\* the rows of installed batch b, in row order
RowsOf(b) == [r \in 1..installed[b].n |-> << b, r - 1 >>]

\* the rows of the first k installed batches, in batch order
RECURSIVE RowsUpTo(_)
RowsUpTo(k) == IF k = 0 THEN << >> ELSE RowsUpTo(k - 1) \o RowsOf(k)

\* C29: fetch runs only with the current batch exhausted and more true; a
\* batch is installed when every row of the batches before it has been
\* delivered, and it becomes the current batch with its own length and the
\* index at its first row; the rows delivered are at all times the first
\* rows of the installed batches in batch order and row order, and when
\* io.EOF is returned they are all of them.
C29_EveryRowOnceInOrder ==
  /\ [](npc \in {"fetch_rpc", "fetch_sleep"} => (idx >= rsLength /\ more))
  /\ [][Len(installed') > Len(installed)
          => /\ Len(installed') = Len(installed) + 1
             /\ delivered = RowsUpTo(Len(installed))
             /\ rsLength' = installed'[Len(installed')].n
             /\ more' = installed'[Len(installed')].hasMoreRows
             /\ idx' = Len(delivered') - Len(delivered)]_vars
  /\ [](IsPrefix(delivered, RowsUpTo(Len(installed))))
  /\ [](eofAt # -1 => /\ delivered = RowsUpTo(Len(installed))
                      /\ eofAt = Len(RowsUpTo(Len(installed))))

\* two batches of ten rows were read to the end: twenty rows, then io.EOF
C29_TwoFullBatchesRead ==
  /\ npc = "done" /\ nret = IoEOF
  /\ Len(installed) = 2
  /\ installed[1].n = DecodeMaxRows /\ installed[2].n = DecodeMaxRows
  /\ eofAt = 2 * DecodeMaxRows

\* the vectors of column col that are populated
Populated(col) == {vk \in VecKinds : col[vk].set}

\* the row set result has a populated vector, and the first column that has
\* one has only the vector of kind vk populated, with n values
FirstPopulatedIs(vk, n) ==
  /\ ~result.isNil
  /\ \E c \in 1..Len(result.Columns) :
       /\ \A b \in 1..(c - 1) : Populated(result.Columns[b]) = {}
       /\ Populated(result.Columns[c]) = {vk}
       /\ Len(result.Columns[c][vk].Values) = n

\* the row set result is nil, has no columns, or has no populated vector
NothingPopulated ==
  \/ result.isNil
  \/ \A c \in 1..Len(result.Columns) : Populated(result.Columns[c]) = {}

\* C30: the length of a batch is the number of values of its populated
\* vector, whichever of the seven kinds it is: n for a column with only that
\* vector populated with n values, and 0 for a nil batch, a batch without
\* columns and a batch without a populated vector.
C30_LengthOfPopulatedVector ==
  npc \in {"measured", "at_end", "at_row"} =>
    /\ \A vk \in VecKinds : \A n \in 0..MaxVecLen :
         FirstPopulatedIs(vk, n) => rsLength = n
    /\ NothingPopulated => rsLength = 0
    /\ npc = "at_row" => rsLength > 0
    /\ npc = "at_end" => rsLength = 0

\* a batch whose first column has no populated vector and whose second has
\* MaxVecLen doubles was measured
C30_DoublesMeasured ==
  /\ npc = "at_row"
  /\ Len(result.Columns) = 2
  /\ Populated(result.Columns[1]) = {}
  /\ Populated(result.Columns[2]) = {"DoubleVal"}
  /\ rsLength = MaxVecLen /\ MaxVecLen > 0

\* this step ends a Next with the error of a malformed timestamp
IsDecodeFailure ==
  /\ npc \in {"ready", "done", "fetch_rpc"}
  /\ npc' = "done"
  /\ nret' # Nil /\ ChainHas(nret', "time.ParseError")

DescribesColumn(cd, desc) ==
  /\ cd.Name = desc.name
  /\ cd.DatabaseTypeName = desc.type.stem
  /\ cd.HasLength = desc.hasLength
  /\ cd.Length = IF desc.hasLength THEN desc.length ELSE 0
  /\ cd.HasPrecisionScale = (desc.hasPrecision /\ desc.hasScale)
  /\ cd.Precision = IF desc.hasPrecision /\ desc.hasScale THEN desc.precision ELSE 0
  /\ cd.Scale = IF desc.hasPrecision /\ desc.hasScale THEN desc.scale ELSE 0

\* C32: a GetResultSetMetadata whose RPC returned without a failing status
\* returns no error and one descriptor per server column in the server's
\* order, with HasLength and HasPrecisionScale telling which qualifiers are
\* present and 0 in the fields of an absent one; without a schema in the
\* response the schema returned is empty.
C32_SchemaFollowsServer ==
  (lastCall = "GetResultSetMetadata" /\ lastResp.rpcErr = Nil
     /\ checkStatus(lastResp) = Nil) =>
    /\ lastRet.err = Nil /\ ~lastRet.isNil
    /\ Len(lastRet.schema) = IF lastResp.isSetSchema THEN Len(lastResp.columns) ELSE 0
    /\ \A c \in 1..Len(lastRet.schema) :
         DescribesColumn(lastRet.schema[c], lastResp.columns[c])

\* a DECIMAL column with only a scale qualifier and a VARCHAR column with a
\* length were described
C32_ScaleOnlyThenLength ==
  /\ lastCall = "GetResultSetMetadata" /\ lastRet.err = Nil
  /\ Len(lastRet.schema) = 2
  /\ lastResp.columns[1].hasScale /\ ~lastResp.columns[1].hasPrecision
  /\ lastRet.schema[1].DatabaseTypeName = "DECIMAL"
  /\ ~lastRet.schema[1].HasPrecisionScale /\ lastRet.schema[1].Scale = 0
  /\ lastRet.schema[2].DatabaseTypeName = "VARCHAR"
  /\ lastRet.schema[2].HasLength /\ lastRet.schema[2].Length = 10

\* the error of the first of the three checks that response r fails, or Nil
FirstFailure(r) ==
  IF r.rpcErr # Nil THEN r.rpcErr
  ELSE IF r.code \in {"ERROR_STATUS", "INVALID_HANDLE_STATUS"}
  THEN << Err("status", r.code, 0) >>
  ELSE IF r.state \in {"ERROR_STATE", "CANCELED_STATE"}
  THEN << Err("state", r.state, 0) >>
  ELSE Nil

\* C33: every CheckStateAndStatus is one GetOperationStatus RPC, and its
\* result is the error of the first failing check - transport, status code,
\* operation state, in this order - with the zero state, or the raw state
\* with no error: the check that WaitToFinish just made ended the wait with
\* that error, and without one the wait went on exactly for a state other
\* than FINISHED (inside the loop, with the context not done).
C33_ChecksInFixedOrder ==
  /\ [](wpc = "check" => rpcs = Len(sleeps) + 1)
  /\ [](wpc \in {"sleep", "done"} =>
          LET c == CheckStateAndStatus(lastReport)
          IN /\ c.err = FirstFailure(lastReport)
             /\ c.state = IF FirstFailure(lastReport) = Nil
                          THEN lastReport.state ELSE ZeroState)
  /\ [][(wpc = "check" /\ wpc' # "check") =>
          LET r == lastReport'
          IN /\ rpcs' = rpcs
             /\ FirstFailure(r) # Nil => (wpc' = "done" /\ wret' = FirstFailure(r))
             /\ (FirstFailure(r) = Nil /\ (ctxErr = Nil \/ ~wInLoop))
                  => IF r.state = "FINISHED_STATE"
                     THEN wpc' = "done" /\ wret' = Nil
                     ELSE wpc' = "sleep"]_vars

\* the first check of a wait got a response with a failing status code and
\* the ERROR state: the wait ended with the error of the status code
C33_StatusBeforeState ==
  /\ wpc = "done" /\ rpcs = 1
  /\ lastReport.rpcErr = Nil
  /\ lastReport.code = "ERROR_STATUS" /\ lastReport.state = "ERROR_STATE"
  /\ wret = << Err("status", "ERROR_STATUS", 0) >>

\* C34: the cursor is within its batch: 0 <= idx <= length, length is the
\* length of the batch held (0 when none is held); a Next that delivered a
\* row decoded the row before idx, and a Next that failed to decode a row
\* was at a row of the batch.
C34_CursorWithinBatch ==
  /\ 0 <= idx /\ idx <= rsLength
  /\ rsLength = length(result)
  /\ rsLength = IF installed = << >> THEN 0 ELSE curBatch.n
  /\ (npc = "done" /\ nret = Nil) =>
       /\ 1 <= idx
       /\ delivered # << >>
       /\ delivered[Len(delivered)] = << Len(installed), idx - 1 >>
  /\ (npc \in {"done", "panicked"} /\ nret \notin {Nil, IoEOF} /\ lastFetch.rpcErr = Nil
        /\ nret # ctxErr /\ ~ChainHas(nret, "status")) => idx < rsLength

\* Next has failed at the only row of the second batch, after delivering the
\* row of the first
C34_FailedAtRowOfBatch ==
  /\ npc = "done" /\ ChainHas(nret, "time.ParseError")
  /\ Len(installed) = 2 /\ idx = 0 /\ rsLength = 1
  /\ delivered = << << 1, 0 >> >>

\* C35: once Next has returned io.EOF, every later call of Next returns
\* io.EOF in the same step, without a fetch or an RPC, and leaves the
\* destination and the cursor as they were.
C35_EndOfDataAbsorbing ==
  /\ [](eofAt # -1 => (npc = "done" /\ nret = IoEOF))
  /\ [][(eofAt # -1 /\ IsNextCall)
          => /\ npc' = "done" /\ nret' = IoEOF
             /\ fetchCalls' = 0 /\ rpcs' = 0
             /\ srvBatches' = srvBatches
             /\ CursorKept]_vars

\* the Next that fetched the empty last batch returned io.EOF, and a Next
\* called after it, which fetched nothing, returned io.EOF again
C35_CalledAfterEnd ==
  /\ npc = "done" /\ nret = IoEOF
  /\ Len(installed) = 2
  /\ installed[2].n = 0 /\ ~installed[2].hasMoreRows
  /\ eofAt = 1
  /\ fetchCalls = 0

\* the error fetch returns for the response just received, or Nil
FetchError ==
  IF lastFetch'.rpcErr # Nil THEN lastFetch'.rpcErr
  ELSE IF lastFetch'.code \in {"ERROR_STATUS", "INVALID_HANDLE_STATUS"}
  THEN << Err("status", lastFetch'.code, 0) >>
  ELSE IF lastFetch'.code = "STILL_EXECUTING_STATUS" /\ ctxErr = Nil THEN Nil
  ELSE ctxErr

\* C36: when fetch returns an error - of the RPC, of the status code, or of
\* the context - Next returns that error and leaves the cursor and the
\* destination as they were, exhausted and with more true; and a Next called
\* with the cursor so invokes fetch.
C36_FetchErrorKeepsCursor ==
  /\ [][(npc = "fetch_rpc" /\ ctxErr' = ctxErr /\ FetchError # Nil)
          => /\ npc' = "done" /\ nret' = FetchError
             /\ CursorKept
             /\ idx' >= rsLength' /\ more']_vars
  /\ [][(IsNextCall /\ idx >= rsLength /\ more)
          => /\ fetchCalls' = 1
             /\ nret' # IoEOF
             /\ IF ctxErr = Nil THEN npc' = "fetch_rpc"
                ELSE npc' = "done" /\ nret' = ctxErr /\ CursorKept]_vars
  /\ []((npc = "done" /\ fetchCalls >= 1 /\ nret # Nil /\ nret # IoEOF
           /\ ~ChainHas(nret, "time.ParseError"))
          => (idx >= rsLength /\ more))

\* the first fetch of a result failed with a status code, and the fetch of
\* the Next called after it is in flight
C36_FetchAgainAfterFailure ==
  /\ npc = "fetch_rpc"
  /\ installed = << >>
  /\ lastFetch.code = "ERROR_STATUS"
  /\ ChainHas(nret, "status")
  /\ fetchCalls = 1 /\ rpcs = 1

\* C37: a Next that fails to decode a row leaves idx at that row; the Next
\* called after it fails at the same row with the same error, without a
\* fetch; the cursor never passes a row whose timestamp is malformed and
\* never delivers it.
C37_FailedRowNotSkipped ==
  /\ [][IsDecodeFailure
          => /\ idx' = curBatch'.bad
             /\ delivered' = delivered
             /\ idx' = Len(delivered')]_vars
  /\ [][(IsNextCall /\ npc = "done" /\ ChainHas(nret, "time.ParseError"))
          => /\ npc' = "done" /\ nret' = nret
             /\ idx' = idx /\ fetchCalls' = 0
             /\ delivered' = delivered]_vars
  /\ [](curBatch.bad # -1 =>
          /\ idx <= curBatch.bad
          /\ \A k \in 1..Len(delivered) : delivered[k][2] < curBatch.bad)

\* six rows of a batch of ten were delivered and Next fails at the seventh
C37_StuckAtSeventhRow ==
  /\ npc = "done" /\ ChainHas(nret, "time.ParseError")
  /\ curBatch.n = 10 /\ curBatch.bad = 6
  /\ idx = 6 /\ Len(delivered) = 6

\* C38: after a Flush - successful or failed in its write - the outbound
\* buffer is empty; the frame of a successful Flush holds the bytes buffered
\* since the Flush before it; no written byte is on the wire twice or out of
\* order, or both on the wire and in the buffer.
C38_FlushEmptiesBuffer ==
  /\ [][(tpc = "open" /\ flushes' = flushes + 1)
          => /\ wbuf' = << >>
             /\ flushRes' = Nil => wireOut' = Append(wireOut, FlushFrame(wbuf))]_vars
  /\ [](tpc = "open"
          => StrictlyIncreasing(FramedBytes(wireOut, NegWrites + 1) \o wbuf))

\* a flush failed, and the flush after the second write sent a frame of the
\* byte of that write alone
C38_NothingRetransmitted ==
  /\ tpc = "open" /\ faulted /\ flushRes = Nil
  /\ writes = 2 /\ flushes = 2
  /\ Len(wireOut) = NegWrites + 1
  /\ wireOut[NegWrites + 1] = << 0, 0, 0, 1, 145 >>
  /\ wbuf = << >>

\* the frames of payloads j.. of ps, as they are on the wire
RECURSIVE FramesFrom(_, _)
FramesFrom(ps, j) ==
  IF j > Len(ps) THEN << >> ELSE FlushFrame(ps[j]) \o FramesFrom(ps, j + 1)

\* this step is a call of Read
IsRead ==
  /\ tpc = "open" /\ tpc' = "open"
  /\ fed' = fed /\ flushes' = flushes

PollEnding(r) == FirstFailure(r) # Nil \/ r.state = "FINISHED_STATE"

\* C40: with RPCs that return and timers that expire, a WaitToFinish whose
\* context is done returns, and so does a Next in fetch; a status check that
\* reports FINISHED, ERROR or CANCELED or that fails ends the wait, and a
\* fetch response with a row or with hasMoreRows false, or a failed fetch,
\* ends Next; nothing else does: without these a status check is followed by
\* a sleep, and the sleep by the next check, however many there have been.
C40_PollingTerminates ==
  /\ (ctxErr # Nil /\ wpc \in {"check", "sleep"} /\ rpcs < MaxPolls) ~> (wpc = "done")
  /\ (ctxErr # Nil /\ npc \in {"fetch_rpc", "fetch_sleep"}) ~> (npc = "done")
  /\ [][(wpc = "check" /\ wpc' # "check")
          => IF PollEnding(lastReport') \/ (ctxErr # Nil /\ wInLoop)
             THEN wpc' = "done" ELSE wpc' = "sleep"]_vars
  /\ []((wpc = "sleep" /\ rpcs < MaxPolls)
          => ENABLED (\E byTimer \in BOOLEAN : WaitSleepEnd(byTimer)))
  /\ [][wpc = "sleep" => wpc' \in {"sleep", "check"}]_vars
  /\ [][(IsFetchResponse /\ ctxErr = Nil /\ lastFetch'.code \in SuccessCodes)
          => LET b == installed'[Len(installed')]
             IN IF b.n >= 1 \/ ~b.hasMoreRows
                THEN npc' \in {"done", "panicked"}
                ELSE npc' = "fetch_rpc" /\ fetchCalls' = fetchCalls + 1]_vars
  /\ [][(npc = "fetch_rpc" /\ npc' = "done")
          => \/ Len(delivered') = Len(delivered) + 1
             \/ (nret' = IoEOF /\ ~more')
             \/ (ctxErr' = ctxErr /\ FetchError # Nil /\ nret' = FetchError)
             \/ ChainHas(nret', "time.ParseError")]_vars

\* a wait that was told MaxPolls times that the statement is running and
\* returned the error of its context
C40_PolledUntilCancelled ==
  /\ wpc = "done" /\ wret # Nil /\ wret = ctxErr
  /\ rpcs = MaxPolls /\ Len(sleeps) = MaxPolls - 1
  /\ lastReport.state = "RUNNING_STATE" /\ lastReport.rpcErr = Nil
  /\ lastReport.code = "SUCCESS_STATUS"
====
